---- MODULE Spec2Model ----
(***************************************************************************)
(* generic_cache: cache keys (BaseCacheKey, ArgsCacheKey), key builders,   *)
(* the InMemoryCache backend, the GenericCache orchestrator and the        *)
(* wrappers (CacheDecorator / CacheHandler, generic_cached_method).        *)
(*                                                                         *)
(* Python values are tagged records [t, v]: ints, strings and None are     *)
(* different values even when their string forms agree.                    *)
(***************************************************************************)
EXTENDS Integers, Sequences, FiniteSets, TLC

VARIABLES
    key,      \* SpecKey: the ArgsCacheKey object under study
    kfields,  \* SpecKey: the object's fields as they were at the first read of key_str
    kfirst,   \* SpecKey: what the first read of key_str returned (None before it)
    klast,    \* SpecKey: what the latest read of key_str returned (None before any)
    krebuilt, \* SpecKey: the string the fields would have built at the latest read
    kreads,   \* SpecKey: number of reads of key_str so far
    cache,    \* InMemoryCache._cache: key string -> [value, expires_in]
    now,      \* datetime.now(), in seconds
    frame,    \* per caller, the orchestrator call in flight or just finished
    cfg,      \* SpecWrap: the decoration (wrapper kind, key_type, key_version, timeouts)
    lyst,     \* SpecWrap: the data the wrapped target reads
    wcall,    \* SpecWrap: the wrapper operation in flight or just finished
    stored    \* SpecWrap: what the latest writing wrapped call put in the backend

keyVars == <<key, kfields, kfirst, klast, krebuilt, kreads>>
backendVars == <<cache, now>>
wrapVars == <<cfg, lyst, wcall, stored>>
vars == <<key, kfields, kfirst, klast, krebuilt, kreads, cache, now, frame,
          cfg, lyst, wcall, stored>>

(***************************************************************************)
(* Bounds                                                                  *)
(***************************************************************************)
MaxArgs == 2
MaxReads == 2
MaxTime == 2

(***************************************************************************)
(* Python values and their string forms                                    *)
(***************************************************************************)
I(n) == [t |-> "int", v |-> n]
S(s) == [t |-> "str", v |-> s]
None == [t |-> "none", v |-> "None"]
True == [t |-> "bool", v |-> TRUE]
False == [t |-> "bool", v |-> FALSE]
\* an instance (a receiver), by name
Obj(n) == [t |-> "obj", v |-> n]

Digits == <<"0", "1", "2", "3", "4", "5", "6", "7", "8", "9">>

RECURSIVE IntStr(_)
IntStr(n) ==
    IF n < 0 THEN "-" \o IntStr(0 - n)
    ELSE IF n < 10 THEN Digits[n + 1]
    ELSE IntStr(n \div 10) \o Digits[(n % 10) + 1]

\* str(x) / "{}".format(x)
Str(x) ==
    CASE x.t = "int" -> IntStr(x.v)
      [] x.t = "str" -> x.v
      [] x.t = "bool" -> (IF x.v THEN "True" ELSE "False")
      [] x.t = "obj" -> "<object " \o x.v \o ">"
      [] OTHER -> "None"

\* sep.join(parts)
RECURSIVE Join(_, _)
Join(sep, parts) ==
    IF parts = <<>> THEN ""
    ELSE IF Len(parts) = 1 THEN parts[1]
    ELSE parts[1] \o sep \o Join(sep, Tail(parts))

\* (str(a) for a in seq)
StrAll(seq) == [i \in 1..Len(seq) |-> Str(seq[i])]

(***************************************************************************)
(* Dictionaries (kwargs) are sequences of <<name, value>> pairs with       *)
(* distinct names, in the dictionary's iteration order.                    *)
(***************************************************************************)
Names(d) == {d[i][1] : i \in 1..Len(d)}
HasName(d, n) == n \in Names(d)
Lookup(d, n) == d[CHOOSE i \in 1..Len(d) : d[i][1] = n][2]

\* d.pop(n, default): the value
PopValue(d, n, default) == IF HasName(d, n) THEN Lookup(d, n) ELSE default
\* d.pop(n, default): the dictionary left
PopRest(d, n) == SelectSeq(d, LAMBDA p : p[1] # n)

\* d[n] = v: replaces in place, or appends
SetItem(d, n, v) ==
    IF HasName(d, n)
    THEN [i \in 1..Len(d) |-> IF d[i][1] = n THEN <<n, v>> ELSE d[i]]
    ELSE Append(d, <<n, v>>)

\* d.update(e)
RECURSIVE Update(_, _)
Update(d, e) ==
    IF e = <<>> THEN d ELSE Update(SetItem(d, e[1][1], e[1][2]), Tail(e))

\* The mapping a dictionary denotes, whatever its iteration order.
AsMapping(d) == [n \in Names(d) |-> Lookup(d, n)]

\* Python's ordering of the names the model uses, ascending.
NameOrder ==
    <<"a", "b", "c", "disable_cache", "disable_cache_overwrite", "id",
      "key_version", "self", "timeout">>
Rank(n) == CHOOSE i \in 1..Len(NameOrder) : NameOrder[i] = n

\* sorted(d.items()): ascending by name
RECURSIVE InsertSorted(_, _)
InsertSorted(p, sorted) ==
    IF sorted = <<>> THEN <<p>>
    ELSE IF Rank(p[1]) <= Rank(sorted[1][1]) THEN <<p>> \o sorted
    ELSE <<sorted[1]>> \o InsertSorted(p, Tail(sorted))

\* (mutant) the items in the dictionary's own order
UnsortedItems(d) == d

RECURSIVE SortedItems(_)
SortedItems(d) ==
    IF d = <<>> THEN <<>> ELSE InsertSorted(d[1], SortedItems(Tail(d)))

(***************************************************************************)
(* BaseCacheKey and ArgsCacheKey                                           *)
(***************************************************************************)
\* BaseCacheKey.__init__
NewBaseCacheKey(key_type, key_version, timeout) ==
    [key_type |-> key_type, version |-> key_version, timeout |-> timeout]

\* BaseCacheKey.key_str
BaseKeyStr(k) == Str(k.key_type) \o Str(k.version)

\* ArgsCacheKey.__init__(key_type, *args, **kwargs)
NewArgsCacheKey(key_type, args, kwargs) ==
    [key_type |-> key_type,
     timeout  |-> PopValue(kwargs, "timeout", None),
     version  |-> PopValue(PopRest(kwargs, "timeout"), "key_version", S("")),
     args     |-> args,
     kwargs   |-> PopRest(PopRest(kwargs, "timeout"), "key_version"),
     _key_str |-> None]

\* "{k}_{v}".format(k=k, v=v)
ItemStr(p) == p[1] \o "_" \o Str(p[2])
ItemStrAll(items) == [i \in 1..Len(items) |-> ItemStr(items[i])]

\* The string ArgsCacheKey.key_str builds when _key_str is None
ComputeKeyStr(k) ==
    LET base_key   == Str(k.key_type)
        args_str   == Join("__", StrAll(k.args))
        kwargs_str == Join("__", ItemStrAll(SortedItems(k.kwargs)))
        s0 == base_key \o Str(k.version)
        s1 == IF args_str # "" THEN s0 \o "__" \o args_str ELSE s0
    IN  IF kwargs_str # "" THEN s1 \o "__" \o kwargs_str ELSE s1

\* (mutant) key_str rebuilt from the fields on every read
ReadKeyNoMemo(k) == [k EXCEPT !._key_str = S(ComputeKeyStr(k))]

\* ArgsCacheKey.key_str: the object after the read (memoised string set)
ReadKey(k) ==
    IF k._key_str = None THEN [k EXCEPT !._key_str = S(ComputeKeyStr(k))] ELSE k

\* ArgsCacheKey.key_str: the string returned
KeyStr(k) == ReadKey(k)._key_str.v

\* key.key_str of either key class
KeyStrOf(k) == IF "args" \in DOMAIN k THEN KeyStr(k) ELSE BaseKeyStr(k)

(***************************************************************************)
(* Normalising a call's arguments, and the key builders                    *)
(***************************************************************************)
\* for i, arg in enumerate(args): d[names[i + skip]] = arg
RECURSIVE SetPositional(_, _, _, _)
SetPositional(d, names, args, skip) ==
    IF args = <<>> THEN d
    ELSE SetPositional(SetItem(d, names[1 + skip], args[1]), Tail(names), Tail(args), skip)

\* (mutant) the positional args are left out of the normalized kwargs
GetFuncKwargsKeywordsOnly(argspec, args, kwargs) == Update(<<>>, kwargs)

\* key_builder._get_func_kwargs, once the signature has no varargs: the
\* positional args by parameter name, then updated with the kwargs
GetFuncKwargs(argspec, args, kwargs) ==
    Update(SetPositional(<<>>, argspec.args, args, 0), kwargs)

\* cache._get_method_kwargs, once the signature has no varargs: a copy of the
\* kwargs, then the positional args by parameter name, skipping self/cls
GetMethodKwargs(argspec, args, kwargs) ==
    SetPositional(kwargs, argspec.args, args, 1)

\* inspect.getargspec(method).varargs is not None: ValueError
HasVarargs(argspec) == argspec.varargs # None

\* getattr(instance, 'id')
InstanceId(instance) == IF instance = Obj("A") THEN S("uniq") ELSE S("other")

\* (mutant) an attribute is inserted only where no parameter has its name
SetAttrsIfMissing(d, attrs, instance) ==
    IF attrs = <<>> \/ HasName(d, attrs[1]) THEN d
    ELSE SetItem(d, attrs[1], InstanceId(instance))

\* for attr in attrs: kwargs[attr] = getattr(instance, attr)
RECURSIVE SetAttrs(_, _, _)
SetAttrs(d, attrs, instance) ==
    IF attrs = <<>> THEN d
    ELSE SetAttrs(SetItem(d, attrs[1], InstanceId(instance)), Tail(attrs), instance)

\* (mutant) the receiver is left among the normalized kwargs
NormalizedKwargsWithSelf(c, func_args, func_kwargs) ==
    LET plain == GetFuncKwargs(c.argspec, func_args, func_kwargs)
    IN  IF c.kind = "attrs" THEN SetAttrs(plain, c.attrs, func_args[1]) ELSE plain

\* FunctionKeyBuilder / MethodKeyBuilder / AttrsMethodKeyBuilder
\* .get_normalized_kwargs(func, *func_args, **func_kwargs)
NormalizedKwargs(c, func_args, func_kwargs) ==
    LET plain == GetFuncKwargs(c.argspec, func_args, func_kwargs)
    IN  CASE c.kind = "function" -> plain
          [] c.kind = "method" -> PopRest(plain, "self")
          [] OTHER -> SetAttrs(PopRest(plain, "self"), c.attrs, func_args[1])

\* FunctionKeyBuilder.build_key(key_prefix, func, *func_args, **func_kwargs)
BuildKey(c, key_prefix, func_args, func_kwargs) ==
    NewArgsCacheKey(S(key_prefix), <<>>, NormalizedKwargs(c, func_args, func_kwargs))

\* CacheDecorator._build_key(key_type, original_func, *func_args, **func_kwargs)
DecoratorBuildKey(c, func_args, func_kwargs) ==
    BuildKey(c, c.key_prefix \o c.key_type, func_args, func_kwargs)

\* (mutant) get_key that leaves the timeout to ArgsCacheKey, without the
\* orchestrator's default
GetKeyNoDefault(c, key_type, args, kwargs) ==
    NewArgsCacheKey(S(c.key_prefix \o key_type), args, kwargs)

\* GenericCache.get_key(key_type, *args, **kwargs) of an orchestrator with
\* this key_prefix and default_timeout
GetKey(c, key_type, args, kwargs) ==
    LET timeout == PopValue(kwargs, "timeout", c.default_timeout)
    IN  NewArgsCacheKey(S(c.key_prefix \o key_type), args,
                        Append(PopRest(kwargs, "timeout"), <<"timeout", timeout>>))

(***************************************************************************)
(* InMemoryCache                                                           *)
(***************************************************************************)
\* InMemoryCache.__init__: self._cache = {}
EmptyCache == [k \in {} |-> [value |-> None, expires_in |-> None]]

\* (mutant) get that ignores expires_in
BackendGetNoExpiry(c, k, t) == IF k \in DOMAIN c THEN c[k].value ELSE None

\* (mutant) an entry counts as expired from its expiry time on
BackendGetExpiredAt(c, k, t) ==
    LET e == IF k \in DOMAIN c THEN c[k] ELSE [value |-> None, expires_in |-> None]
    IN  IF e.expires_in # None /\ e.expires_in.v <= t THEN None ELSE e.value

\* InMemoryCache.get(key) at time t
BackendGet(c, k, t) ==
    LET e == IF k \in DOMAIN c THEN c[k] ELSE [value |-> None, expires_in |-> None]
    IN  IF e.expires_in # None /\ e.expires_in.v < t THEN None ELSE e.value

\* InMemoryCache.set(key, value, timeout) at time t
BackendSet(c, k, value, timeout, t) ==
    LET expires_in == IF timeout # None THEN I(t + timeout.v) ELSE None
    IN  [x \in DOMAIN c \cup {k} |->
            IF x = k THEN [value |-> value, expires_in |-> expires_in] ELSE c[x]]

\* InMemoryCache.delete(key)
BackendDelete(c, k) == [x \in DOMAIN c \ {k} |-> c[x]]

(***************************************************************************)
(* GenericCache: get / set / flush, one backend call or func() per step    *)
(***************************************************************************)
Procs == {"p1", "p2"}

\* the keys the callers use
OrchKeys ==
    {NewBaseCacheKey(S("test_key"), S(""), I(1)),
     NewBaseCacheKey(S("other"), S(""), None)}

\* what a func() may return
FuncResults == {I(1), I(2), None}

IdleFrame ==
    [op |-> "none", pc |-> "idle", key |-> None,
     disable_cache |-> FALSE, disable_cache_overwrite |-> FALSE,
     value |-> None, gets |-> <<>>, calls |-> <<>>, sets |-> <<>>, dels |-> <<>>,
     error |-> None]

\* (mutant) a read that goes on to compute when the backend returned None
GetFromCacheThenCompute(p, k) ==
    /\ frame[p].pc = "idle"
    /\ LET value == BackendGet(cache, KeyStrOf(k), now)
       IN  frame' = [frame EXCEPT ![p] =
               [IdleFrame EXCEPT
                   !.op = "get_from_cache", !.key = k, !.value = value,
                   !.gets = <<[key |-> KeyStrOf(k), result |-> value]>>,
                   !.pc = IF value = None THEN "compute" ELSE "done"]]
    /\ UNCHANGED <<cache, now>>

\* GenericCache.get_from_cache(key): one backend get, returned as it is
GetFromCache(p, k) ==
    /\ frame[p].pc = "idle"
    /\ LET value == BackendGet(cache, KeyStrOf(k), now)
       IN  frame' = [frame EXCEPT ![p] =
               [IdleFrame EXCEPT
                   !.op = "get_from_cache", !.key = k, !.value = value,
                   !.gets = <<[key |-> KeyStrOf(k), result |-> value]>>,
                   !.pc = "done"]]
    /\ UNCHANGED <<cache, now>>

\* (mutant) get that calls func() whatever the backend returned
GetBeginAlwaysCompute(p, k, dc, dco) ==
    /\ frame[p].pc = "idle"
    /\ LET value == IF dc THEN None ELSE BackendGet(cache, KeyStrOf(k), now)
       IN  frame' = [frame EXCEPT ![p] =
               [IdleFrame EXCEPT
                   !.op = "get", !.key = k,
                   !.disable_cache = dc, !.disable_cache_overwrite = dco,
                   !.value = value,
                   !.gets = IF dc THEN <<>>
                            ELSE <<[key |-> KeyStrOf(k), result |-> value]>>,
                   !.pc = "compute"]]
    /\ UNCHANGED <<cache, now>>

\* (mutant) a hit is decided by the key having a live entry, whatever its value
GetBeginServesEntry(p, k, dc, dco) ==
    /\ frame[p].pc = "idle"
    /\ LET value == IF dc THEN None ELSE BackendGet(cache, KeyStrOf(k), now)
           hit == ~dc /\ KeyStrOf(k) \in DOMAIN cache
                      /\ (cache[KeyStrOf(k)].expires_in = None
                          \/ cache[KeyStrOf(k)].expires_in.v >= now)
       IN  frame' = [frame EXCEPT ![p] =
               [IdleFrame EXCEPT
                   !.op = "get", !.key = k,
                   !.disable_cache = dc, !.disable_cache_overwrite = dco,
                   !.value = value,
                   !.gets = IF dc THEN <<>>
                            ELSE <<[key |-> KeyStrOf(k), result |-> value]>>,
                   !.pc = IF hit THEN "done" ELSE "compute"]]
    /\ UNCHANGED <<cache, now>>

\* GenericCache.get, lines 224-230: value = None; the backend read unless
\* disable_cache
GetBegin(p, k, dc, dco) ==
    /\ frame[p].pc = "idle"
    /\ LET value == IF dc THEN None ELSE BackendGet(cache, KeyStrOf(k), now)
       IN  frame' = [frame EXCEPT ![p] =
               [IdleFrame EXCEPT
                   !.op = "get", !.key = k,
                   !.disable_cache = dc, !.disable_cache_overwrite = dco,
                   !.value = value,
                   !.gets = IF dc THEN <<>>
                            ELSE <<[key |-> KeyStrOf(k), result |-> value]>>,
                   !.pc = IF value = None THEN "compute" ELSE "done"]]
    /\ UNCHANGED <<cache, now>>

\* (mutant) func()'s result is written whatever disable_cache_overwrite says
GetComputeAlwaysWrite(p, result) ==
    /\ frame[p].op = "get"
    /\ frame[p].pc = "compute"
    /\ frame' = [frame EXCEPT
            ![p].value = result,
            ![p].calls = Append(@, result),
            ![p].pc = "write"]
    /\ UNCHANGED <<cache, now>>

\* (mutant) the backend is read again before func(), and what it holds by then
\* is returned in place of func()'s result
GetComputeRereads(p, result) ==
    /\ frame[p].op = "get"
    /\ frame[p].pc = "compute"
    /\ LET again == BackendGet(cache, KeyStrOf(frame[p].key), now)
       IN  frame' = [frame EXCEPT
               ![p].value = IF again # None THEN again ELSE result,
               ![p].gets = Append(@, [key |-> KeyStrOf(frame[p].key), result |-> again]),
               ![p].calls = IF again # None THEN @ ELSE Append(@, result),
               ![p].pc = IF again # None \/ frame[p].disable_cache_overwrite
                         THEN "done" ELSE "write"]
    /\ UNCHANGED <<cache, now>>

\* GenericCache.get, lines 232-233: value = func()
GetCompute(p, result) ==
    /\ frame[p].op = "get"
    /\ frame[p].pc = "compute"
    /\ frame' = [frame EXCEPT
            ![p].value = result,
            ![p].calls = Append(@, result),
            ![p].pc = IF frame[p].disable_cache_overwrite THEN "done" ELSE "write"]
    /\ UNCHANGED <<cache, now>>

\* (mutant) set that passes no timeout to the backend
SetCallNoTimeout(k, value) ==
    [key |-> KeyStrOf(k), value |-> value, timeout |-> None]

\* GenericCache.set(key, value): the backend call it makes,
\* cache_backend.set(key.key_str, value, timeout=key.timeout)
SetCall(k, value) ==
    [key |-> KeyStrOf(k), value |-> value, timeout |-> k.timeout]

\* the backend after a set call made at time t
AfterSet(c, call, t) == BackendSet(c, call.key, call.value, call.timeout, t)

\* (mutant) the write is skipped when the key has got an entry meanwhile
GetWriteIfAbsent(p) ==
    /\ frame[p].op = "get"
    /\ frame[p].pc = "write"
    /\ cache' = IF KeyStrOf(frame[p].key) \in DOMAIN cache THEN cache
                ELSE AfterSet(cache, SetCall(frame[p].key, frame[p].value), now)
    /\ frame' = [frame EXCEPT
            ![p].sets = Append(@, SetCall(frame[p].key, frame[p].value)),
            ![p].pc = "done"]
    /\ UNCHANGED now

\* (mutant) the write only replaces an entry: it is dropped when the key has
\* none by then
GetWriteIfPresent(p) ==
    /\ frame[p].op = "get"
    /\ frame[p].pc = "write"
    /\ cache' = IF KeyStrOf(frame[p].key) \in DOMAIN cache
                THEN AfterSet(cache, SetCall(frame[p].key, frame[p].value), now)
                ELSE cache
    /\ frame' = [frame EXCEPT
            ![p].sets = Append(@, SetCall(frame[p].key, frame[p].value)),
            ![p].pc = "done"]
    /\ UNCHANGED now

\* GenericCache.get, lines 234-236: self.set(key, value); return value
GetWrite(p) ==
    /\ frame[p].op = "get"
    /\ frame[p].pc = "write"
    /\ cache' = AfterSet(cache, SetCall(frame[p].key, frame[p].value), now)
    /\ frame' = [frame EXCEPT
            ![p].sets = Append(@, SetCall(frame[p].key, frame[p].value)),
            ![p].pc = "done"]
    /\ UNCHANGED now

\* GenericCache.set called directly
Set(p, k, value) ==
    /\ frame[p].pc = "idle"
    /\ cache' = AfterSet(cache, SetCall(k, value), now)
    /\ frame' = [frame EXCEPT ![p] =
            [IdleFrame EXCEPT
                !.op = "set", !.key = k, !.value = value, !.pc = "done",
                !.sets = <<SetCall(k, value)>>]]
    /\ UNCHANGED now

\* (mutant) flush that raises for a key the backend does not hold
FlushStrict(p, k) ==
    /\ frame[p].pc = "idle"
    /\ cache' = BackendDelete(cache, KeyStrOf(k))
    /\ frame' = [frame EXCEPT ![p] =
            [IdleFrame EXCEPT
                !.op = "flush", !.key = k,
                !.pc = IF KeyStrOf(k) \in DOMAIN cache THEN "done" ELSE "raised",
                !.error = IF KeyStrOf(k) \in DOMAIN cache THEN None ELSE S("KeyError"),
                !.dels = <<KeyStrOf(k)>>]]
    /\ UNCHANGED now

\* GenericCache.flush(key): one backend delete
Flush(p, k) ==
    /\ frame[p].pc = "idle"
    /\ cache' = BackendDelete(cache, KeyStrOf(k))
    /\ frame' = [frame EXCEPT ![p] =
            [IdleFrame EXCEPT
                !.op = "flush", !.key = k, !.pc = "done",
                !.dels = <<KeyStrOf(k)>>]]
    /\ UNCHANGED now

\* the call returns to its caller
Return(p) ==
    /\ frame[p].pc = "done"
    /\ frame' = [frame EXCEPT ![p] = IdleFrame]
    /\ UNCHANGED <<cache, now>>

\* a second passes
Tick ==
    /\ now < MaxTime
    /\ now' = now + 1
    /\ UNCHANGED <<cache, frame>>

KeyIdle ==
    /\ key = NewArgsCacheKey(S("t"), <<>>, <<>>)
    /\ kfields = key
    /\ kfirst = None
    /\ klast = None
    /\ krebuilt = None
    /\ kreads = 0

WrapIdle ==
    /\ cfg = None
    /\ lyst = None
    /\ wcall = None
    /\ stored = None

Init ==
    /\ cache = EmptyCache
    /\ now = 0
    /\ frame = [p \in Procs |-> IdleFrame]
    /\ KeyIdle
    /\ WrapIdle

OrchGet ==
    \E p \in Procs, k \in OrchKeys, dc \in BOOLEAN, dco \in BOOLEAN :
        GetBegin(p, k, dc, dco) /\ UNCHANGED <<keyVars, wrapVars>>
OrchCompute ==
    \E p \in Procs, result \in FuncResults :
        GetCompute(p, result) /\ UNCHANGED <<keyVars, wrapVars>>
OrchWrite == \E p \in Procs : GetWrite(p) /\ UNCHANGED <<keyVars, wrapVars>>
OrchGetFromCache ==
    \E p \in Procs, k \in OrchKeys :
        GetFromCache(p, k) /\ UNCHANGED <<keyVars, wrapVars>>
OrchSet ==
    \E p \in Procs, k \in OrchKeys, value \in FuncResults :
        Set(p, k, value) /\ UNCHANGED <<keyVars, wrapVars>>
OrchFlush ==
    \E p \in Procs, k \in OrchKeys : Flush(p, k) /\ UNCHANGED <<keyVars, wrapVars>>
OrchReturn == \E p \in Procs : Return(p) /\ UNCHANGED <<keyVars, wrapVars>>
OrchTick == Tick /\ UNCHANGED <<keyVars, wrapVars>>

Next ==
    \/ OrchGet
    \/ OrchCompute
    \/ OrchWrite
    \/ OrchGetFromCache
    \/ OrchSet
    \/ OrchFlush
    \/ OrchReturn
    \/ OrchTick

Spec == Init /\ [][Next]_vars

(***************************************************************************)
(* Claims about GenericCache.get (checked under Spec)                      *)
(***************************************************************************)
IsGet(f) == f.op = "get"
\* the backend read of a get call returned r
ReadGave(f) == f.gets[1].result
\* the entry a caller would be served for key k right now
Live(k) == BackendGet(cache, KeyStrOf(k), now)

\* C1: a get with disable_cache=False whose backend read of key.key_str
\* returned a non-None value is finished by that read: it returns exactly that
\* value, has not invoked func and has made no backend set or delete.
C1_HitReturnsStored ==
    \A p \in Procs :
        LET f == frame[p] IN
        (IsGet(f) /\ ~f.disable_cache /\ f.gets # <<>> /\ ReadGave(f) # None) =>
            /\ f.pc = "done"
            /\ f.gets = <<[key |-> KeyStrOf(f.key), result |-> f.value]>>
            /\ f.calls = <<>>
            /\ f.sets = <<>>
            /\ f.dels = <<>>

\* a hit served while the entry's key had a func result waiting to differ
C1_Witness ==
    \E p \in Procs :
        /\ IsGet(frame[p]) /\ ~frame[p].disable_cache /\ frame[p].pc = "done"
        /\ frame[p].gets # <<>> /\ ReadGave(frame[p]) = I(2)
        /\ frame[p].value = I(2)

\* C2: a get with both flags False whose backend read returned None invokes
\* func exactly once, makes exactly one backend set, set(key.key_str, func's
\* result, timeout=key.timeout), before returning, and returns func's result.
C2_MissComputesAndWrites ==
    \A p \in Procs :
        LET f == frame[p] IN
        (IsGet(f) /\ ~f.disable_cache /\ ~f.disable_cache_overwrite
            /\ ReadGave(f) = None) =>
            /\ f.pc \in {"compute", "write", "done"}
            /\ Len(f.gets) = 1
            /\ f.pc = "compute" => f.calls = <<>> /\ f.sets = <<>>
            /\ f.pc = "write" => Len(f.calls) = 1 /\ f.sets = <<>>
            /\ f.pc = "done" =>
                /\ Len(f.calls) = 1
                /\ f.sets = <<[key |-> KeyStrOf(f.key), value |-> f.calls[1],
                               timeout |-> f.key.timeout]>>
                /\ f.value = f.calls[1]
                /\ f.dels = <<>>

\* a finished miss on the key that has a timeout, whose write is in the backend
C2_Witness ==
    \E p \in Procs :
        LET f == frame[p] IN
        /\ IsGet(f) /\ ~f.disable_cache /\ ~f.disable_cache_overwrite
        /\ f.pc = "done" /\ ReadGave(f) = None
        /\ f.key.timeout = I(1)
        /\ f.value = I(2)
        /\ KeyStrOf(f.key) \in DOMAIN cache
        /\ cache[KeyStrOf(f.key)] = [value |-> I(2), expires_in |-> I(now + 1)]

Bypass(f) == IsGet(f) /\ f.disable_cache /\ f.disable_cache_overwrite

\* C3: a get with disable_cache=True never reads the backend and always
\* invokes func (once), whatever the backend holds; it writes func's result with
\* key.timeout unless disable_cache_overwrite=True, in which case it makes no
\* backend set and none of its steps changes the backend.
C3_DisableCacheState ==
    \A p \in Procs :
        LET f == frame[p] IN
        (IsGet(f) /\ f.disable_cache) =>
            /\ f.gets = <<>>
            /\ f.dels = <<>>
            /\ f.pc \in {"compute", "write", "done"}
            /\ f.pc = "write" => ~f.disable_cache_overwrite
            /\ f.pc = "done" =>
                /\ Len(f.calls) = 1
                /\ f.value = f.calls[1]
                /\ f.sets = IF f.disable_cache_overwrite THEN <<>>
                            ELSE <<[key |-> KeyStrOf(f.key), value |-> f.calls[1],
                                    timeout |-> f.key.timeout]>>

C3_DisableCacheStep ==
    \A p \in Procs :
        (frame'[p] # frame[p] /\ (Bypass(frame[p]) \/ Bypass(frame'[p]))) =>
            cache' = cache

C3_DisableCache == []C3_DisableCacheState /\ [][C3_DisableCacheStep]_vars

\* func invoked and its result returned, nothing read or written, while the
\* backend holds a live, different value for the key
C3_Witness ==
    \E p \in Procs :
        LET f == frame[p] IN
        /\ Bypass(f) /\ f.pc = "done"
        /\ Live(f.key) = I(1)
        /\ f.value = I(2)

\* both callers are in a get of the same key, cache enabled and writable
SameKeyGets(p, q) ==
    /\ p # q
    /\ IsGet(frame[p]) /\ IsGet(frame[q])
    /\ frame[p].key = frame[q].key
    /\ ~frame[p].disable_cache /\ ~frame[q].disable_cache
    /\ ~frame[p].disable_cache_overwrite /\ ~frame[q].disable_cache_overwrite
BothMissed(p, q) ==
    SameKeyGets(p, q) /\ ReadGave(frame[p]) = None /\ ReadGave(frame[q]) = None

\* C13: when two gets of the same key have both read a miss, neither is served
\* the other's result: each invokes func once and makes its own backend set;
\* each set replaces whatever the key held, so once both are over the key
\* holds the value of the set that ran last.
C13_State ==
    \A p \in Procs, q \in Procs :
        BothMissed(p, q) =>
            /\ frame[p].pc = "done" =>
                /\ Len(frame[p].calls) = 1
                /\ Len(frame[p].sets) = 1
                /\ frame[p].sets[1].value = frame[p].calls[1]
            /\ (frame[p].pc = "done" /\ frame[q].pc = "done") =>
                cache[KeyStrOf(frame[p].key)].value \in {frame[p].value, frame[q].value}

C13_Step ==
    \A p \in Procs :
        (IsGet(frame[p]) /\ frame[p].pc = "write" /\ frame'[p].pc = "done") =>
            cache'[KeyStrOf(frame[p].key)].value = frame[p].value

C13_LastWriterWins == []C13_State /\ [][C13_Step]_vars

\* a race on the key that never expires: both callers read a miss, p1 wrote 1
\* and then p2 wrote 2 over it
C13_Witness ==
    /\ BothMissed("p1", "p2")
    /\ frame["p1"].key.timeout = None
    /\ frame["p1"].pc = "done" /\ frame["p2"].pc = "done"
    /\ frame["p1"].value = I(1) /\ frame["p2"].value = I(2)
    /\ cache[KeyStrOf(frame["p1"].key)].value = I(2)

\* the backend holds a live entry for k whose value is None: some get or set
\* wrote a None result
HoldsNone(k) ==
    /\ k \in DOMAIN cache
    /\ cache[k].value = None
    /\ (cache[k].expires_in = None \/ cache[k].expires_in.v >= now)

\* C14: a None result is never served from the cache: a get (cache enabled)
\* that begins while the backend holds a live None entry for its key, written
\* by however many earlier gets, goes on to invoke func; and whenever a get
\* returns None, that None is the result of its own func invocation.
C14_State ==
    \A p \in Procs :
        (IsGet(frame[p]) /\ frame[p].pc = "done" /\ frame[p].value = None) =>
            frame[p].calls = <<None>>

C14_Step ==
    \A p \in Procs :
        (/\ frame[p].pc = "idle"
         /\ IsGet(frame'[p])
         /\ ~frame'[p].disable_cache
         /\ HoldsNone(KeyStrOf(frame'[p].key))) =>
            /\ frame'[p].pc = "compute"
            /\ frame'[p].calls = <<>>

C14_NoneNeverServed == []C14_State /\ [][C14_Step]_vars

\* p2's get wrote its None result under the key that never expires; p1's get
\* of that key read a miss all the same and has invoked func again
C14_Witness ==
    /\ IsGet(frame["p2"]) /\ frame["p2"].pc = "done"
    /\ frame["p2"].key.timeout = None
    /\ Len(frame["p2"].sets) = 1 /\ frame["p2"].value = None
    /\ HoldsNone(KeyStrOf(frame["p2"].key))
    /\ IsGet(frame["p1"]) /\ frame["p1"].key = frame["p2"].key
    /\ ~frame["p1"].disable_cache /\ frame["p1"].disable_cache_overwrite
    /\ frame["p1"].pc = "done" /\ frame["p1"].calls = <<None>>

\* what InMemoryCache.get is to return for key string k, from the entry the
\* backend holds: nothing for a key without entry or with an expiry time in the
\* past, the entry's value otherwise
ExpectedRead(k) ==
    IF k \notin DOMAIN cache THEN None
    ELSE IF cache[k].expires_in # None /\ cache[k].expires_in.v < now THEN None
    ELSE cache[k].value

\* the backend calls caller p makes in this step
ReadsNow(p) == frame[p].pc = "idle" /\ frame'[p].gets # <<>>
SetsNow(p) == Len(frame'[p].sets) > Len(frame[p].sets)
DeletesNow(p) == Len(frame'[p].dels) > Len(frame[p].dels)
Touched ==
    {frame'[p].sets[Len(frame'[p].sets)].key : p \in {q \in Procs : SetsNow(q)}}
    \cup {frame'[p].dels[Len(frame'[p].dels)] : p \in {q \in Procs : DeletesNow(q)}}

\* C15: the backend starts empty; a set leaves the key with the value set and
\* the expiry time now + timeout (none for timeout=None); a delete leaves the
\* key without entry; no other step, the passing of time included, changes any
\* entry; and a get returns, without raising, None for a key with no entry or
\* with an expiry time in the past and the entry's value otherwise.
C15_Step ==
    /\ \A p \in Procs :
        /\ ReadsNow(p) =>
            /\ frame'[p].gets[1].result = ExpectedRead(frame'[p].gets[1].key)
            /\ frame'[p].error = None
        /\ SetsNow(p) =>
            LET call == frame'[p].sets[Len(frame'[p].sets)] IN
            /\ call.key \in DOMAIN cache'
            /\ cache'[call.key].value = call.value
            /\ cache'[call.key].expires_in =
                   IF call.timeout = None THEN None ELSE I(now + call.timeout.v)
        /\ DeletesNow(p) => frame'[p].dels[Len(frame'[p].dels)] \notin DOMAIN cache'
    /\ \A k \in (DOMAIN cache \cup DOMAIN cache') \ Touched :
        /\ k \in DOMAIN cache
        /\ k \in DOMAIN cache'
        /\ cache'[k] = cache[k]

C15_State ==
    \A k \in {KeyStrOf(x) : x \in OrchKeys} : BackendGet(cache, k, now) = ExpectedRead(k)

C15_BackendContract == cache = EmptyCache /\ []C15_State /\ [][C15_Step]_vars

\* a get_from_cache answered None for a key whose entry, value 2, has an expiry
\* time in the past, while the other key's entry without expiry is still served
C15_Witness ==
    \E p \in Procs :
        /\ frame[p].op = "get_from_cache" /\ frame[p].pc = "done"
        /\ frame[p].value = None
        /\ frame[p].gets[1].key \in DOMAIN cache
        /\ cache[frame[p].gets[1].key] = [value |-> I(2), expires_in |-> I(1)]
        /\ now = 2
        /\ "other" \in DOMAIN cache
        /\ BackendGet(cache, "other", now) = I(1)

\* C22: GenericCache.flush(key) makes one backend call, the delete of
\* key.key_str, and returns without raising; the step leaves the backend
\* without that key and every other entry as it was, and changes nothing at all
\* when the key had no entry.
C22_State ==
    \A p \in Procs :
        frame[p].op = "flush" =>
            /\ frame[p].pc = "done"
            /\ frame[p].error = None
            /\ frame[p].dels = <<KeyStrOf(frame[p].key)>>
            /\ frame[p].gets = <<>> /\ frame[p].sets = <<>> /\ frame[p].calls = <<>>

C22_Step ==
    \A p \in Procs :
        (frame[p].pc = "idle" /\ frame'[p].op = "flush") =>
            LET k == KeyStrOf(frame'[p].key) IN
            /\ k \notin DOMAIN cache'
            /\ DOMAIN cache' = DOMAIN cache \ {k}
            /\ \A x \in DOMAIN cache' : cache'[x] = cache[x]
            /\ k \notin DOMAIN cache => cache' = cache

C22_FlushDeletesOne == []C22_State /\ [][C22_Step]_vars

\* a flush of 'test_key' returned with the backend holding only the entry of
\* 'other', written by a get that is still open
C22_Witness ==
    /\ frame["p1"].op = "flush" /\ frame["p1"].pc = "done"
    /\ frame["p1"].dels = <<"test_key">>
    /\ DOMAIN cache = {"other"}
    /\ cache["other"].value = I(2)
    /\ frame["p2"].sets = <<[key |-> "other", value |-> I(2), timeout |-> None]>>

\* caller p begins a get, cache enabled, in this step
GetBeginsNow(p) ==
    frame[p].pc = "idle" /\ IsGet(frame'[p]) /\ ~frame'[p].disable_cache

\* C25: the set a get makes after a miss, at time T under a key with timeout
\* t, leaves the entry with the expiry time T + t; while that entry (holding a
\* value other than None) is in the backend, a get of the key that begins at a
\* time not later than the expiry time is a hit, over with its read and without
\* func, and one that begins later is a miss that goes on to func and rewrites
\* the entry with the expiry time counted from its own write; the passing of
\* time changes no entry: the expired entry stays until it is overwritten.
C25_Step ==
    /\ \A p \in Procs :
        /\ (IsGet(frame[p]) /\ frame[p].pc = "write" /\ frame'[p].pc = "done"
                /\ frame[p].key.timeout # None) =>
            cache'[KeyStrOf(frame[p].key)] =
                [value |-> frame[p].value,
                 expires_in |-> I(now + frame[p].key.timeout.v)]
        /\ (GetBeginsNow(p) /\ KeyStrOf(frame'[p].key) \in DOMAIN cache) =>
            LET e == cache[KeyStrOf(frame'[p].key)] IN
            (e.value # None /\ e.expires_in # None) =>
                /\ now <= e.expires_in.v =>
                    /\ frame'[p].pc = "done"
                    /\ frame'[p].value = e.value
                    /\ frame'[p].calls = <<>>
                    /\ cache' = cache
                /\ now > e.expires_in.v =>
                    /\ frame'[p].pc = "compute"
                    /\ cache' = cache
    /\ now' # now => cache' = cache

C25_PassiveExpiry == [][C25_Step]_vars

\* the entry of a key with timeout 1 was rewritten at time 2 by a get that
\* missed, invoked func and got 2, after another get had written 1
C25_Witness ==
    /\ now = 2
    /\ IsGet(frame["p1"]) /\ frame["p1"].pc = "done"
    /\ ~frame["p1"].disable_cache
    /\ ReadGave(frame["p1"]) = None
    /\ frame["p1"].calls = <<I(2)>>
    /\ "test_key" \in DOMAIN cache
    /\ cache["test_key"] = [value |-> I(2), expires_in |-> I(3)]
    /\ IsGet(frame["p2"]) /\ frame["p2"].pc = "done"
    /\ frame["p2"].sets = <<[key |-> "test_key", value |-> I(1), timeout |-> I(1)]>>

\* a hit at the very expiry time: the entry expires at 2 and time is 2
C25_BoundaryWitness ==
    /\ now = 2
    /\ IsGet(frame["p1"]) /\ frame["p1"].pc = "done"
    /\ frame["p1"].gets # <<>> /\ ReadGave(frame["p1"]) = I(1)
    /\ "test_key" \in DOMAIN cache
    /\ cache["test_key"] = [value |-> I(1), expires_in |-> I(2)]
    /\ frame["p2"].op = "get_from_cache" /\ frame["p2"].pc = "done"
    /\ frame["p2"].value = None /\ frame["p2"].key = frame["p1"].key

\* C26: a get call, whatever its flags and whatever the other caller does
\* meanwhile, reads the backend at most once and invokes func at most once; the
\* value it returns is the value of its own read when that was not None, and
\* the result of its own func invocation otherwise.
C26_OwnReadOrOwnResult ==
    \A p \in Procs :
        LET f == frame[p] IN
        IsGet(f) =>
            /\ Len(f.gets) <= 1
            /\ Len(f.calls) <= 1
            /\ f.disable_cache => f.gets = <<>>
            /\ (f.gets # <<>> /\ ReadGave(f) # None) => f.calls = <<>>
            /\ f.pc = "done" =>
                \/ f.gets # <<>> /\ ReadGave(f) # None /\ f.value = ReadGave(f)
                \/ f.calls # <<>> /\ f.value = f.calls[1]

\* p1's get read a miss, invoked func and returned its 1 without writing,
\* while the key already holds the 2 that p2's get has written meanwhile
C26_Witness ==
    /\ IsGet(frame["p1"]) /\ frame["p1"].pc = "done"
    /\ ~frame["p1"].disable_cache /\ frame["p1"].disable_cache_overwrite
    /\ ReadGave(frame["p1"]) = None
    /\ frame["p1"].calls = <<I(1)>>
    /\ frame["p1"].value = I(1)
    /\ IsGet(frame["p2"]) /\ frame["p2"].pc = "done"
    /\ frame["p2"].key = frame["p1"].key
    /\ frame["p2"].sets # <<>>
    /\ "other" \in DOMAIN cache
    /\ frame["p1"].key.key_type = S("other")
    /\ cache["other"].value = I(2)

\* caller p is inside a get that missed and will write: past its read (or with
\* none to make), before its backend set
MissInFlight(p) ==
    /\ IsGet(frame[p])
    /\ frame[p].pc \in {"compute", "write"}
    /\ ~frame[p].disable_cache_overwrite
\* caller q's flush of key k is over
FlushOver(q, k) ==
    frame[q].op = "flush" /\ frame[q].pc = "done" /\ frame[q].key = k

\* C30: a flush(key) that runs while a get(key) that missed is between its
\* backend read and its backend set removes the entry and does not stop that
\* get; the get's set then puts the key back: once both are over the key has
\* an entry again, holding the value the get computed.
C30_Step ==
    \A p \in Procs : \A q \in Procs \ {p} :
        /\ (MissInFlight(p) /\ frame[q].pc = "idle" /\ frame'[q].op = "flush"
                /\ frame'[q].key = frame[p].key) =>
            /\ KeyStrOf(frame[p].key) \notin DOMAIN cache'
            /\ frame'[p] = frame[p]
        /\ (MissInFlight(p) /\ FlushOver(q, frame[p].key)
                /\ frame[p].pc = "write" /\ frame'[p].pc = "done") =>
            /\ KeyStrOf(frame[p].key) \in DOMAIN cache'
            /\ cache'[KeyStrOf(frame[p].key)].value = frame[p].value
            /\ frame'[p].value = frame[p].value
            /\ FlushOver(q, frame[p].key)'

C30_FlushUndone == [][C30_Step]_vars

\* p1's get read a miss and computed 2; p2's flush of the key is over and so
\* is p1's get: the key holds 2 and serves it
C30_Witness ==
    /\ IsGet(frame["p1"]) /\ frame["p1"].pc = "done"
    /\ ~frame["p1"].disable_cache
    /\ ReadGave(frame["p1"]) = None
    /\ frame["p1"].calls = <<I(2)>>
    /\ Len(frame["p1"].sets) = 1
    /\ FlushOver("p2", frame["p1"].key)
    /\ KeyStrOf(frame["p1"].key) \in DOMAIN cache
    /\ cache[KeyStrOf(frame["p1"].key)].value = I(2)
    /\ BackendGet(cache, KeyStrOf(frame["p1"].key), now) = I(2)

(***************************************************************************)
(* SpecWrap: a decorated callable (CacheDecorator with one of the key      *)
(* builders, or generic_cached_method), called, peeked and flushed by one  *)
(* caller over an InMemoryCache                                            *)
(***************************************************************************)
W == "p1"

FunctionSpec == [args |-> <<"a", "b", "c">>, varargs |-> None]
MethodSpec == [args |-> <<"self", "a", "b", "c">>, varargs |-> None]
VarargsSpec == [args |-> <<"a", "b", "c">>, varargs |-> S("args")]
VarargsMethodSpec == [args |-> <<"self", "a", "b", "c">>, varargs |-> S("args")]

Decoration(kind, key_prefix, key_type, key_version, key_timeout, default_timeout, attrs, argspec, cache_attr_ok) ==
    [kind |-> kind, key_prefix |-> key_prefix, key_type |-> key_type,
     key_version |-> key_version, key_timeout |-> key_timeout,
     default_timeout |-> default_timeout, attrs |-> attrs, argspec |-> argspec,
     cache_attr_ok |-> cache_attr_ok]

\* the decorations under study; kind "gcm" is generic_cached_method, the other
\* kinds are a CacheDecorator with that key builder
Decorations ==
    {Decoration("function", "Test.", "f", S(""), None, None, <<>>, FunctionSpec, TRUE),
     Decoration("function", "Test.", "f", S(""), None, None, <<>>, VarargsSpec, TRUE),
     Decoration("method", "Test.", "m", S("v2"), I(1), I(2), <<>>, MethodSpec, TRUE),
     Decoration("method", "Test.", "m", S(""), None, I(1), <<>>, MethodSpec, TRUE),
     Decoration("attrs", "UserModel.", "m", S(""), None, None, <<"id">>, MethodSpec, TRUE),
     Decoration("gcm", "", "m", I(3), I(1), I(2), <<>>, MethodSpec, TRUE),
     Decoration("gcm", "", "m", S(""), None, I(1), <<>>, MethodSpec, TRUE),
     Decoration("gcm", "", "m", S(""), None, None, <<"id">>, MethodSpec, TRUE),
     Decoration("gcm", "", "m", S(""), None, None, <<>>, VarargsMethodSpec, TRUE),
     Decoration("gcm", "", "m", S(""), None, None, <<>>, MethodSpec, FALSE)}

IsDecorator(c) == c.kind \in {"function", "method", "attrs"}

\* the values of the target's parameters a, b, c at a call
ParamVals(a) == <<a, I(2), I(3)>>
ParamNames == <<"a", "b", "c">>
Receivers == {Obj("A"), Obj("B")}
SourceVals == {I(1), I(2), None}

\* the logical arguments of the calls: a function is called with two values
\* of a, a method on two receivers
Logicals(c) ==
    IF c.kind = "function"
    THEN {[recv |-> None, a |-> a] : a \in {I(1), I(2)}}
    ELSE {[recv |-> recv, a |-> I(1)] : recv \in Receivers}

Reverse(seq) == [i \in 1..Len(seq) |-> seq[Len(seq) + 1 - i]]

\* a call site: the first npos parameters positional, the others by keyword
\* (in declaration order or reversed), and the flags given as keywords
CallSite(logical, npos, reversed, dc, dco) ==
    LET vals == ParamVals(logical.a)
        kw == [i \in 1..(3 - npos) |-> <<ParamNames[npos + i], vals[npos + i]>>]
    IN  [recv |-> logical.recv,
         args |-> SubSeq(vals, 1, npos),
         kwargs |-> (IF reversed THEN Reverse(kw) ELSE kw)
                    \o (IF dc THEN <<<<"disable_cache", True>>>> ELSE <<>>)
                    \o (IF dco THEN <<<<"disable_cache_overwrite", True>>>> ELSE <<>>),
         logical |-> logical]

CallSites(c) ==
    {CallSite(logical, npos, reversed, dc, dco) :
        logical \in Logicals(c), npos \in 0..3,
        reversed \in BOOLEAN, dc \in BOOLEAN, dco \in BOOLEAN}

\* the call sites of the handler's get and flush: no flags
HandlerSites(c) ==
    {CallSite(logical, npos, reversed, FALSE, FALSE) :
        logical \in Logicals(c), npos \in 0..3, reversed \in BOOLEAN}

\* kwargs.pop('disable_cache', False); kwargs.pop('disable_cache_overwrite', False)
DisableCache(site) == PopValue(site.kwargs, "disable_cache", False) = True
DisableCacheOverwrite(site) ==
    PopValue(site.kwargs, "disable_cache_overwrite", False) = True

\* (mutant) the flags are left in kwargs
KeptKwargs(site) == site.kwargs

\* kwargs once both flags are popped
PoppedKwargs(site) ==
    PopRest(PopRest(site.kwargs, "disable_cache"), "disable_cache_overwrite")

\* *args as the wrapper receives them: the receiver first, for a method
FuncArgs(site) == IF site.recv = None THEN site.args ELSE <<site.recv>> \o site.args

\* (mutant) the decorator's default_timeout is ignored
KeyTimeoutOnly(c) == c.key_timeout

\* CacheDecorator.__call__: if key_timeout == None: key_timeout = default
DecoratorTimeout(c) ==
    IF c.key_timeout = None THEN c.default_timeout ELSE c.key_timeout

\* CacheDecorator decorated(): the key it builds, with key.timeout set
DecoratedKey(c, site) ==
    [DecoratorBuildKey(c, FuncArgs(site),
        <<<<"key_version", c.key_version>>>> \o PoppedKwargs(site))
     EXCEPT !.timeout = DecoratorTimeout(c)]

\* CacheHandler._call_cache: the key it builds
HandlerKey(c, site) == DecoratorBuildKey(c, FuncArgs(site), site.kwargs)

\* dict((arg, getattr(instance, arg)) for arg in class_attr_keys)
ClassAttrDict(c, instance) == SetAttrs(<<>>, c.attrs, instance)

\* generic_cached_method decorated(): the key it builds
MethodKey(c, site) ==
    LET _kwargs == Update(PoppedKwargs(site), ClassAttrDict(c, site.recv))
        normalized_kwargs == GetMethodKwargs(c.argspec, site.args, _kwargs)
        k == GetKey(c, c.key_type, <<>>,
                    <<<<"key_version", c.key_version>>>> \o normalized_kwargs)
    IN  IF c.key_timeout # None THEN [k EXCEPT !.timeout = c.key_timeout] ELSE k

WrapKey(c, site) == IF IsDecorator(c) THEN DecoratedKey(c, site) ELSE MethodKey(c, site)

\* instance.__class__.__name__ of the receivers
ClassName == "GenericCached"
\* the cache_attr the method is decorated with
CacheAttr(c) == IF c.cache_attr_ok THEN "generic_cache" ELSE "wrong_generic_cache"

\* (mutant) cache_attr is not checked
VarargsErrorOnly(c) ==
    IF HasVarargs(c.argspec)
    THEN S("method must not have vargargs on its signature")
    ELSE None

\* (mutant) the signature is not checked
CacheAttrErrorOnly(c) ==
    IF ~IsDecorator(c) /\ ~c.cache_attr_ok
    THEN S(ClassName \o "." \o CacheAttr(c) \o " is not an instance of GenericCache")
    ELSE None

\* the ValueError a call raises before it reaches GenericCache.get, or None
CallError(c) ==
    IF ~IsDecorator(c) /\ ~c.cache_attr_ok
    THEN S(ClassName \o "." \o CacheAttr(c) \o " is not an instance of GenericCache")
    ELSE IF HasVarargs(c.argspec)
    THEN S("method must not have vargargs on its signature")
    ELSE None

RaisedFrame(op, error) ==
    [IdleFrame EXCEPT !.op = op, !.pc = "raised", !.error = error]

\* the record of the latest write of a wrapped call, while the backend still
\* serves it (not expired, flushed or overwritten since) to a call with these
\* logical arguments; None otherwise
Promised(logical) ==
    IF /\ stored # None
       /\ stored.logical = logical
       /\ stored.key \in DOMAIN cache
       /\ cache[stored.key] = stored.entry
       /\ BackendGet(cache, stored.key, now) # None
    THEN stored
    ELSE None

\* decorated(*args, **kwargs) up to the backend read of GenericCache.get
WrapCall(site) ==
    /\ frame[W].pc = "idle"
    /\ IF CallError(cfg) # None
       THEN /\ frame' = [frame EXCEPT ![W] = RaisedFrame("get", CallError(cfg))]
            /\ UNCHANGED <<cache, now>>
       ELSE GetBegin(W, WrapKey(cfg, site), DisableCache(site),
                     DisableCacheOverwrite(site))
    /\ wcall' = [op |-> "call", site |-> site, forwarded |-> None]
    /\ UNCHANGED <<cfg, lyst, stored, keyVars>>

\* call_original() / f(): the target runs on the popped arguments and reads lyst
WrapCompute ==
    /\ wcall # None
    /\ wcall.op = "call"
    /\ GetCompute(W, lyst)
    /\ wcall' = [wcall EXCEPT !.forwarded =
            [args |-> FuncArgs(wcall.site), kwargs |-> PoppedKwargs(wcall.site)]]
    /\ UNCHANGED <<cfg, lyst, stored, keyVars>>

\* GenericCache.get writes the target's result
WrapWrite ==
    /\ wcall # None
    /\ wcall.op = "call"
    /\ GetWrite(W)
    /\ stored' = [logical |-> wcall.site.logical,
                  key |-> KeyStrOf(frame[W].key),
                  entry |-> cache'[KeyStrOf(frame[W].key)],
                  refresh |-> frame[W].disable_cache]
    /\ UNCHANGED <<cfg, lyst, wcall, keyVars>>

\* decorated.cache.get(*args, **kwargs)
HandlerGet(site) ==
    /\ IsDecorator(cfg)
    /\ frame[W].pc = "idle"
    /\ IF CallError(cfg) # None
       THEN /\ frame' = [frame EXCEPT ![W] = RaisedFrame("get_from_cache", CallError(cfg))]
            /\ UNCHANGED <<cache, now>>
       ELSE GetFromCache(W, HandlerKey(cfg, site))
    /\ wcall' = [op |-> "peek", site |-> site, forwarded |-> None]
    /\ UNCHANGED <<cfg, lyst, stored, keyVars>>

\* decorated.cache.flush(*args, **kwargs)
HandlerFlush(site) ==
    /\ IsDecorator(cfg)
    /\ frame[W].pc = "idle"
    /\ IF CallError(cfg) # None
       THEN /\ frame' = [frame EXCEPT ![W] = RaisedFrame("flush", CallError(cfg))]
            /\ UNCHANGED <<cache, now>>
       ELSE Flush(W, HandlerKey(cfg, site))
    /\ wcall' = [op |-> "flush", site |-> site, forwarded |-> None]
    /\ UNCHANGED <<cfg, lyst, stored, keyVars>>

\* the wrapper returns, or the error reaches the caller
WrapReturn ==
    /\ frame[W].pc \in {"done", "raised"}
    /\ frame' = [frame EXCEPT ![W] = IdleFrame]
    /\ wcall' = None
    /\ UNCHANGED <<cache, now, cfg, lyst, stored, keyVars>>

\* instance.lyst = [...]: the data behind the target changes between calls
MutateSource(value) ==
    /\ frame[W].pc = "idle"
    /\ value # lyst
    /\ lyst' = value
    /\ UNCHANGED <<cache, now, frame, cfg, wcall, stored, keyVars>>

\* a second passes; time is only ever read through an entry's expires_in, so
\* it is left still under a decoration that sets no timeout
WrapTick ==
    /\ (cfg.key_timeout # None \/ cfg.default_timeout # None)
    /\ Tick
    /\ UNCHANGED <<keyVars, wrapVars>>

InitWrap ==
    /\ cache = EmptyCache
    /\ now = 0
    /\ frame = [p \in Procs |-> IdleFrame]
    /\ KeyIdle
    /\ cfg \in Decorations
    /\ lyst \in SourceVals
    /\ wcall = None
    /\ stored = None

\* the caller's next operation, chosen when it is not inside one
WrapCallAny == frame[W].pc = "idle" /\ \E site \in CallSites(cfg) : WrapCall(site)
HandlerGetAny == frame[W].pc = "idle" /\ \E site \in HandlerSites(cfg) : HandlerGet(site)
HandlerFlushAny ==
    frame[W].pc = "idle" /\ \E site \in HandlerSites(cfg) : HandlerFlush(site)
MutateSourceAny == \E value \in SourceVals : MutateSource(value)

NextWrap ==
    \/ WrapCallAny
    \/ WrapCompute
    \/ WrapWrite
    \/ HandlerGetAny
    \/ HandlerFlushAny
    \/ WrapReturn
    \/ MutateSourceAny
    \/ WrapTick

SpecWrap == InitWrap /\ [][NextWrap]_vars

(***************************************************************************)
(* Claims about the wrappers (checked under SpecWrap)                      *)
(***************************************************************************)
\* the wrapped call in flight or just finished got past its argument checks
InCall == wcall # None /\ wcall.op = "call" /\ frame[W].pc # "raised"
\* a wrapped call with neither flag begins in this step
NormalCallBegins ==
    /\ frame[W].pc = "idle"
    /\ wcall' # None
    /\ wcall'.op = "call"
    /\ frame'[W].pc # "raised"
    /\ ~frame'[W].disable_cache
    /\ ~frame'[W].disable_cache_overwrite
\* the step's call is served the backend's entry: no target call, no write
ServedStored ==
    /\ frame'[W].pc = "done"
    /\ frame'[W].value = stored.entry.value
    /\ frame'[W].calls = <<>>
    /\ frame'[W].sets = <<>>
    /\ cache' = cache

\* C4: once a wrapped call has populated the cache for some arguments (its
\* write is still what the backend serves: not expired, flushed or overwritten,
\* and not None), every later normal call with the same arguments, in whatever
\* positional/keyword form, returns that stored value without invoking the
\* target, whatever the data source holds by then.
C4_Step ==
    (NormalCallBegins /\ Promised(wcall'.site.logical) # None) => ServedStored

C4_StoredValueServed == [][C4_Step]_vars

\* an all-keyword call served the stored 1 while the data source holds 2
C4_Witness ==
    /\ InCall
    /\ frame[W].pc = "done"
    /\ ~frame[W].disable_cache /\ ~frame[W].disable_cache_overwrite
    /\ wcall.site.args = <<>>
    /\ wcall.site.kwargs[1][1] = "c"
    /\ Promised(wcall.site.logical) # None
    /\ frame[W].value = I(1)
    /\ frame[W].calls = <<>>
    /\ lyst = I(2)

FlagNames == {"disable_cache", "disable_cache_overwrite"}
NormalSites(c, logical) == {s \in HandlerSites(c) : s.logical = logical}

\* C5: a wrapped call with disable_cache=True (and no disable_cache_overwrite)
\* stores the target's fresh value under the key string that normal calls with
\* the same arguments read: the flags are neither part of the key nor forwarded
\* to the target, and the next normal call returns the fresh value.
C5_State ==
    InCall =>
        LET f == frame[W] IN
        /\ Names(f.key.kwargs) \cap FlagNames = {}
        /\ f.calls # <<>> =>
            /\ wcall.forwarded # None
            /\ Names(wcall.forwarded.kwargs) \cap FlagNames = {}
        /\ (f.pc = "done" /\ f.disable_cache /\ ~f.disable_cache_overwrite) =>
            /\ f.value = f.calls[1]
            /\ \A s2 \in NormalSites(cfg, wcall.site.logical) :
                /\ KeyStrOf(WrapKey(cfg, s2)) = f.sets[1].key
                /\ cache[f.sets[1].key].value = f.value

C5_Step ==
    (/\ NormalCallBegins
     /\ Promised(wcall'.site.logical) # None
     /\ stored.refresh) => ServedStored

C5_RefreshSharesKey == []C5_State /\ [][C5_Step]_vars

\* a normal call served the 2 a disable_cache=True call had stored
C5_Witness ==
    /\ InCall
    /\ frame[W].pc = "done"
    /\ ~frame[W].disable_cache /\ ~frame[W].disable_cache_overwrite
    /\ Promised(wcall.site.logical) # None
    /\ stored.refresh
    /\ frame[W].value = I(2)
    /\ frame[W].calls = <<>>
    /\ lyst = I(1)

\* C6: the decorated call, the handler's get and the handler's flush compute
\* the same key string for the same logical arguments, for any key_type and
\* key_version.
C6_HandlerSameKey ==
    (wcall # None /\ IsDecorator(cfg) /\ frame[W].pc = "done") =>
        \A s2 \in NormalSites(cfg, wcall.site.logical) :
            /\ KeyStrOf(frame[W].key) = KeyStrOf(DecoratedKey(cfg, s2))
            /\ KeyStrOf(frame[W].key) = KeyStrOf(HandlerKey(cfg, s2))

\* the mapping and the key string the logical arguments stand for
ExpectedMapping(c, logical) ==
    AsMapping(<<<<"a", logical.a>>, <<"b", I(2)>>, <<"c", I(3)>>>>
              \o (IF c.attrs = <<>> THEN <<>>
                  ELSE <<<<"id", InstanceId(logical.recv)>>>>))
ExpectedKeyStr(c, logical) ==
    c.key_prefix \o c.key_type \o Str(c.key_version)
        \o "__a_" \o Str(logical.a) \o "__b_2__c_3"
        \o (IF c.attrs = <<>> THEN "" ELSE "__id_" \o Str(InstanceId(logical.recv)))

\* C7: every split of the same values of (a, b, c) into positional and keyword
\* arguments normalises to the same name-to-value mapping and so to the same
\* key string, for functions and for methods under CacheDecorator and
\* generic_cached_method.
C7_SplitsAgree ==
    InCall =>
        /\ frame[W].key.args = <<>>
        /\ AsMapping(frame[W].key.kwargs) = ExpectedMapping(cfg, wcall.site.logical)
        /\ KeyStrOf(frame[W].key) = ExpectedKeyStr(cfg, wcall.site.logical)

\* m(1, c=3, b=2) under generic_cached_method
C7_Witness ==
    /\ InCall
    /\ cfg.kind = "gcm"
    /\ wcall.site.args = <<I(1)>>
    /\ wcall.site.kwargs[1][1] = "c"
    /\ KeyStrOf(frame[W].key) = "m3__a_1__b_2__c_3"

\* C16: every backend set a wrapped call makes (on a miss, or under
\* disable_cache) carries the decoration's key_timeout when one is configured
\* and otherwise the default_timeout of the decorator / of the GenericCache,
\* which is None when neither is set; the entry's expiry time follows from it.
C16_WriteTimeout ==
    InCall =>
        \A i \in 1..Len(frame[W].sets) :
            /\ cfg.key_timeout # None => frame[W].sets[i].timeout = cfg.key_timeout
            /\ cfg.key_timeout = None => frame[W].sets[i].timeout = cfg.default_timeout
            /\ (cfg.key_timeout = None /\ cfg.default_timeout = None) =>
                cache[frame[W].sets[i].key].expires_in = None

\* a miss under a CacheDecorator with default_timeout=1 and no key_timeout
\* wrote with timeout 1
C16_Witness ==
    /\ InCall
    /\ IsDecorator(cfg)
    /\ cfg.key_timeout = None /\ cfg.default_timeout = I(1)
    /\ frame[W].pc = "done"
    /\ ~frame[W].disable_cache
    /\ Len(frame[W].sets) = 1
    /\ frame[W].sets[1].timeout = I(1)
    /\ cache[frame[W].sets[1].key].expires_in = I(now + 1)

\* C17: a call of a method decorated with generic_cached_method whose
\* cache_attr is not a GenericCache raises the ValueError that names the class
\* and the attribute, and nothing else happens: no key is built, the target is
\* not invoked, and the backend is neither read nor written.
C17_BadCacheAttr ==
    (cfg # None /\ ~IsDecorator(cfg) /\ ~cfg.cache_attr_ok) =>
        /\ cache = EmptyCache
        /\ wcall # None =>
            /\ frame[W].pc = "raised"
            /\ frame[W].error =
                 S("GenericCached.wrong_generic_cache is not an instance of GenericCache")
            /\ frame[W].key = None
            /\ frame[W].gets = <<>> /\ frame[W].calls = <<>>
            /\ frame[W].sets = <<>> /\ frame[W].dels = <<>>
            /\ wcall.forwarded = None

\* the error raised by m(1, c=3, b=2, disable_cache=True)
C17_Witness ==
    /\ cfg # None /\ ~IsDecorator(cfg) /\ ~cfg.cache_attr_ok
    /\ wcall # None
    /\ wcall.site.args = <<I(1)>>
    /\ DisableCache(wcall.site)
    /\ frame[W].pc = "raised"
    /\ lyst = I(2)

\* C18: under a wrapper whose target declares *args, every decorated call, and
\* every handler get and flush, raises the ValueError of the normalisation:
\* no key is built, the target is not invoked, and the backend is neither read
\* nor written.
C18_VarargsRejected ==
    (cfg # None /\ HasVarargs(cfg.argspec) /\ cfg.cache_attr_ok) =>
        /\ cache = EmptyCache
        /\ wcall # None =>
            /\ frame[W].pc = "raised"
            /\ frame[W].error = S("method must not have vargargs on its signature")
            /\ frame[W].key = None
            /\ frame[W].gets = <<>> /\ frame[W].calls = <<>>
            /\ frame[W].sets = <<>> /\ frame[W].dels = <<>>
            /\ wcall.forwarded = None

\* the error raised by a call through generic_cached_method
C18_Witness ==
    /\ cfg # None /\ HasVarargs(cfg.argspec) /\ cfg.kind = "gcm"
    /\ wcall # None /\ wcall.op = "call"
    /\ wcall.site.args = <<I(1), I(2)>>
    /\ frame[W].pc = "raised"

\* the handler's flush of the arguments of the latest writing call is over
FlushedStored ==
    /\ wcall # None /\ wcall.op = "flush"
    /\ frame[W].pc = "done"
    /\ stored # None
    /\ stored.logical = wcall.site.logical

\* C21: once a wrapped call has stored a value, the handler's flush with the
\* same arguments leaves the backend without that entry, and the next normal
\* call with those arguments invokes the target and returns what the target
\* returns then.
C21_State ==
    /\ FlushedStored => stored.key \notin DOMAIN cache
    /\ (InCall /\ frame[W].calls # <<>>) => frame[W].value = lyst

C21_Step ==
    (/\ NormalCallBegins
     /\ stored # None
     /\ stored.logical = wcall'.site.logical
     /\ stored.key \notin DOMAIN cache) => frame'[W].pc = "compute"

C21_FlushInvalidates == []C21_State /\ [][C21_Step]_vars

\* the same statement for the decorations whose key_version is ''
C21_Unversioned == (cfg # None /\ cfg.key_version = S("")) => C21_State

\* a flush under key_version='' that removed the entry the call had stored
C21_UnversionedWitness ==
    /\ FlushedStored
    /\ cfg.key_version = S("")
    /\ frame[W].dels = <<stored.key>>
    /\ stored.entry.value = I(1)

\* the handler's get in flight or just finished got past the argument checks
InPeek == wcall # None /\ wcall.op = "peek" /\ frame[W].pc # "raised"

\* C23: the handler's get (GenericCache.get_from_cache) makes one backend
\* read, of the key string built from its arguments, and returns what that read
\* returned, a miss (None) included: it is over with that read, the target is
\* not invoked, and the backend is neither written nor deleted from.
C23_State ==
    InPeek =>
        LET f == frame[W] IN
        /\ f.op = "get_from_cache"
        /\ f.pc = "done"
        /\ f.key = HandlerKey(cfg, wcall.site)
        /\ f.gets = <<[key |-> KeyStrOf(f.key), result |-> f.value]>>
        /\ f.calls = <<>> /\ f.sets = <<>> /\ f.dels = <<>>
        /\ wcall.forwarded = None

C23_Step ==
    /\ (frame[W].pc = "idle" /\ wcall' # None /\ wcall'.op = "peek"
            /\ frame'[W].pc # "raised") =>
        /\ frame'[W].value = ExpectedRead(KeyStrOf(frame'[W].key))
        /\ cache' = cache
        /\ stored' = stored
    /\ InPeek => (cache' = cache /\ stored' = stored)

C23_PeekOnlyReads == []C23_State /\ [][C23_Step]_vars

\* a peek that missed on a backend nothing was ever written to, while the
\* target would return 2
C23_Witness ==
    /\ InPeek
    /\ frame[W].value = None
    /\ stored = None
    /\ cache = EmptyCache
    /\ lyst = I(2)

\* a peek that returned the stored 1 while the target would return 2
C23_HitWitness ==
    /\ InPeek
    /\ frame[W].value = I(1)
    /\ lyst = I(2)

\* a method wrapper whose key leaves the receiver out altogether
ReceiverBlind(c) == c.kind \in {"method", "gcm"} /\ c.attrs = <<>>
\* the same call made on the other receiver
OnOther(logical) ==
    [logical EXCEPT !.recv = IF logical.recv = Obj("A") THEN Obj("B") ELSE Obj("A")]

\* C31: under MethodKeyBuilder, and under generic_cached_method without
\* class_attr_keys, the key string of a call does not depend on the receiver;
\* so while the backend serves what a call on one receiver stored, a normal
\* call with the same arguments on the other receiver returns that stored
\* value and the method is not invoked on it.
C31_State ==
    (InCall /\ ReceiverBlind(cfg)) =>
        \A s2 \in NormalSites(cfg, OnOther(wcall.site.logical)) :
            KeyStrOf(WrapKey(cfg, s2)) = KeyStrOf(frame[W].key)

C31_Step ==
    (/\ NormalCallBegins
     /\ ReceiverBlind(cfg)
     /\ Promised(OnOther(wcall'.site.logical)) # None) => ServedStored

C31_SharedAcrossReceivers == []C31_State /\ [][C31_Step]_vars

\* a call on receiver B returned the 1 that a call on receiver A had stored,
\* without the method being invoked, while the data source holds 2
C31_Witness ==
    /\ InCall
    /\ cfg.kind = "method"
    /\ frame[W].pc = "done"
    /\ ~frame[W].disable_cache /\ ~frame[W].disable_cache_overwrite
    /\ wcall.site.logical.recv = Obj("B")
    /\ stored # None
    /\ stored.logical.recv = Obj("A")
    /\ Promised(stored.logical) # None
    /\ frame[W].value = I(1)
    /\ stored.entry.value = I(1)
    /\ frame[W].calls = <<>>
    /\ lyst = I(2)

\* the same under generic_cached_method
C31_GenericCachedMethodWitness ==
    /\ InCall
    /\ cfg.kind = "gcm"
    /\ frame[W].pc = "done"
    /\ ~frame[W].disable_cache
    /\ wcall.site.logical.recv = Obj("B")
    /\ stored # None
    /\ stored.logical.recv = Obj("A")
    /\ Promised(stored.logical) # None
    /\ frame[W].value = stored.entry.value
    /\ frame[W].calls = <<>>
    /\ lyst # frame[W].value

(***************************************************************************)
(* SpecKey: one ArgsCacheKey object, read and mutated                      *)
(***************************************************************************)
KeyTypes == {S("t"), S("tv")}
Versions == {S(""), S("v")}
ArgVals == {I(1), S("1"), S("")}
KwNames == {"a", "b"}
KwVals == {I(1), I(2)}

SeqsUpTo(set, n) == UNION {[1..m -> set] : m \in 0..n}

\* every dictionary over KwNames, in every iteration order
KwDicts ==
    {d \in SeqsUpTo(KwNames \X KwVals, Cardinality(KwNames)) :
        \A i, j \in 1..Len(d) : i # j => d[i][1] # d[j][1]}

\* **kwargs of a constructor call: the reserved key_version among them or not
WithVersion(d, ver) == IF ver = S("") THEN d ELSE Append(d, <<"key_version", ver>>)

KeyInputs ==
    {NewArgsCacheKey(kt, args, WithVersion(kw, ver)) :
        kt \in KeyTypes, ver \in Versions,
        args \in SeqsUpTo(ArgVals, MaxArgs), kw \in KwDicts}

Fields(k) == [key_type |-> k.key_type, version |-> k.version,
              args |-> k.args, kwargs |-> AsMapping(k.kwargs)]

InitKey ==
    /\ key \in KeyInputs
    /\ kfields = key
    /\ kfirst = None
    /\ klast = None
    /\ krebuilt = None
    /\ kreads = 0
    /\ cache = EmptyCache
    /\ now = 0
    /\ frame = [p \in Procs |-> IdleFrame]
    /\ WrapIdle

\* s = key.key_str
ReadKeyStr ==
    /\ kreads < MaxReads
    /\ key' = ReadKey(key)
    /\ klast' = S(KeyStr(key))
    /\ kfirst' = IF kreads = 0 THEN S(KeyStr(key)) ELSE kfirst
    /\ kfields' = IF kreads = 0 THEN key ELSE kfields
    /\ krebuilt' = S(ComputeKeyStr(key))
    /\ kreads' = kreads + 1
    /\ UNCHANGED <<cache, now, frame, wrapVars>>

\* key.key_type = 'othertype'
MutateKeyType ==
    /\ key.key_type # S("othertype")
    /\ key' = [key EXCEPT !.key_type = S("othertype")]
    /\ UNCHANGED <<kfields, kfirst, klast, krebuilt, kreads, cache, now, frame, wrapVars>>

\* key.version = 9
MutateVersion ==
    /\ key.version # I(9)
    /\ key' = [key EXCEPT !.version = I(9)]
    /\ UNCHANGED <<kfields, kfirst, klast, krebuilt, kreads, cache, now, frame, wrapVars>>

\* key.args = key.args[1:]
MutateArgs ==
    /\ key.args # <<>>
    /\ key' = [key EXCEPT !.args = Tail(key.args)]
    /\ UNCHANGED <<kfields, kfirst, klast, krebuilt, kreads, cache, now, frame, wrapVars>>

\* key.kwargs.clear()
MutateKwargs ==
    /\ key.kwargs # <<>>
    /\ key' = [key EXCEPT !.kwargs = <<>>]
    /\ UNCHANGED <<kfields, kfirst, klast, krebuilt, kreads, cache, now, frame, wrapVars>>

NextKey ==
    \/ ReadKeyStr
    \/ MutateKeyType
    \/ MutateVersion
    \/ MutateArgs
    \/ MutateKwargs

SpecKey == InitKey /\ [][NextKey]_vars

(***************************************************************************)
(* Claims about key strings (checked under SpecKey)                        *)
(***************************************************************************)
\* the names of a mapping, ascending
AscendingNames(m) == SelectSeq(NameOrder, LAMBDA n : n \in DOMAIN m)

\* The key string as C9 words it: each section is there exactly when the key
\* has positional args, respectively kwargs.
ClaimedKeyStr(f) ==
    Str(f.key_type) \o Str(f.version)
    \o (IF f.args # <<>> THEN "__" \o Join("__", StrAll(f.args)) ELSE "")
    \o (IF DOMAIN f.kwargs # {}
        THEN "__" \o Join("__", [i \in 1..Len(AscendingNames(f.kwargs)) |->
                 AscendingNames(f.kwargs)[i] \o "_"
                 \o Str(f.kwargs[AscendingNames(f.kwargs)[i]])])
        ELSE "")

\* C8: two ArgsCacheKeys that differ in (key_type, version, ordered args,
\* kwargs) never produce the same key_str: no key the inputs can build, other
\* than the one read, yields the string the read returned.
C8_CollisionResistant ==
    kreads > 0 =>
        \A k2 \in KeyInputs :
            Fields(k2) # Fields(kfields) => KeyStr(k2) # kfirst.v

\* C9: the key_str read from an ArgsCacheKey is key_type, version, then "__" and
\* the joined args only if there are positional args, then "__" and the
\* name_value items in ascending order of name only if there are kwargs; and
\* BaseCacheKey.key_str is key_type followed by version.
C9_KeyStrFormat ==
    kreads > 0 =>
        /\ kfirst.v = ClaimedKeyStr(Fields(kfields))
        /\ BaseKeyStr(NewBaseCacheKey(kfields.key_type, kfields.version, None))
             = Str(kfields.key_type) \o Str(kfields.version)

\* C10: _key_str is None until the first read of key_str, the first read
\* returns the string of the fields as they are then, and every later read
\* returns that same string, whatever was mutated in between.
C10_Memoized ==
    /\ kreads = 0 => key._key_str = None /\ kfirst = None
    /\ kreads > 0 =>
        /\ kfirst = S(ComputeKeyStr(kfields))
        /\ key._key_str = kfirst
        /\ klast = kfirst

\* a second read made on mutated fields, whose rebuilt string would differ
C10_Witness ==
    /\ kreads >= 2
    /\ krebuilt # kfirst
    /\ klast = kfirst

(***************************************************************************)
(* SpecMulti: a GenericCacheMultiple whose get_other_keys derives two      *)
(* more keys from the primary key, used by one caller over a backend       *)
(* whose set may raise                                                     *)
(***************************************************************************)
PrimaryKey == NewBaseCacheKey(S("test_key"), S(""), I(1))
OtherKey == NewBaseCacheKey(S("other"), S(""), I(2))
MultiKeys == {PrimaryKey, OtherKey}
BackendErrors == {S("ConnectionError")}

\* (mutant) the second derived key does not depend on the value
GetOtherKeysOfOne(k, value) ==
    IF k.key_type = S("test_key")
    THEN <<OtherKey, NewArgsCacheKey(S("by_value"), <<I(1)>>, <<>>)>>
    ELSE <<>>

\* get_other_keys(key, value) as a subclass overrides it: for the primary key,
\* a fixed key and a key derived from the value; for any other key, none
GetOtherKeys(k, value) ==
    IF k.key_type = S("test_key")
    THEN <<OtherKey, NewArgsCacheKey(S("by_value"), <<value>>, <<>>)>>
    ELSE <<>>

\* (mutant) the primary key yielded last
GetKeysPrimaryLast(k, value) == GetOtherKeys(k, value) \o <<k>>

\* GenericCacheMultiple.get_keys(key, value)
GetKeys(k, value) == <<k>> \o GetOtherKeys(k, value)

\* GenericCacheMultiple.set(key, value) is entered; no backend call yet
MultiSetBegin(p, k, value) ==
    /\ frame[p].pc = "idle"
    /\ frame' = [frame EXCEPT ![p] =
            [IdleFrame EXCEPT !.op = "set", !.key = k, !.value = value, !.pc = "write"]]
    /\ UNCHANGED <<cache, now>>

\* the backend after these set calls, made in order at time t
RECURSIVE AfterSets(_, _, _)
AfterSets(c, calls, t) ==
    IF calls = <<>> THEN c ELSE AfterSets(AfterSet(c, calls[1], t), Tail(calls), t)

\* (mutant) the whole fan-out written in one step
MultiWriteAll(p) ==
    /\ frame[p].pc = "write"
    /\ LET keys == GetKeys(frame[p].key, frame[p].value)
           calls == [i \in 1..Len(keys) |-> SetCall(keys[i], frame[p].value)]
       IN  /\ cache' = AfterSets(cache, calls, now)
           /\ frame' = [frame EXCEPT ![p].sets = calls, ![p].pc = "done"]
    /\ UNCHANGED now

\* for k in self.get_keys(key, value): super().set(k, value): one iteration,
\* whose backend set succeeds
MultiWrite(p) ==
    /\ frame[p].pc = "write"
    /\ LET keys == GetKeys(frame[p].key, frame[p].value)
           call == SetCall(keys[Len(frame[p].sets) + 1], frame[p].value)
       IN  /\ cache' = AfterSet(cache, call, now)
           /\ frame' = [frame EXCEPT
                   ![p].sets = Append(@, call),
                   ![p].pc = IF Len(frame[p].sets) + 1 = Len(keys)
                             THEN "done" ELSE "write"]
    /\ UNCHANGED now

\* (mutant) a failed backend set is swallowed and the loop goes on
MultiWriteSwallows(p, error) ==
    /\ frame[p].pc = "write"
    /\ frame[p].error = None
    /\ frame' = [frame EXCEPT ![p].error = error]
    /\ UNCHANGED <<cache, now>>

\* one iteration whose backend set raises: nothing is written, and the
\* exception leaves set (and get) through no handler
MultiWriteFails(p, error) ==
    /\ frame[p].pc = "write"
    /\ frame' = [frame EXCEPT ![p].pc = "raised", ![p].error = error]
    /\ UNCHANGED <<cache, now>>

\* (mutant) flush_keys that goes on to delete whatever the read returned
MultiFlushKeysBeginAlways(p, k) ==
    /\ frame[p].pc = "idle"
    /\ LET value == BackendGet(cache, KeyStrOf(k), now)
       IN  frame' = [frame EXCEPT ![p] =
               [IdleFrame EXCEPT
                   !.op = "flush_keys", !.key = k, !.value = value,
                   !.gets = <<[key |-> KeyStrOf(k), result |-> value]>>,
                   !.pc = "flush"]]
    /\ UNCHANGED <<cache, now>>

\* (mutant) flush_keys that takes the value from the stored entry, expired or
\* not
MultiFlushKeysBeginStored(p, k) ==
    /\ frame[p].pc = "idle"
    /\ LET value == IF KeyStrOf(k) \in DOMAIN cache
                    THEN cache[KeyStrOf(k)].value ELSE None
       IN  frame' = [frame EXCEPT ![p] =
               [IdleFrame EXCEPT
                   !.op = "flush_keys", !.key = k, !.value = value,
                   !.gets = <<[key |-> KeyStrOf(k), result |-> value]>>,
                   !.pc = IF value = None THEN "done" ELSE "flush"]]
    /\ UNCHANGED <<cache, now>>

\* GenericCacheMultiple.flush_keys(key): value = self.get_from_cache(key)
MultiFlushKeysBegin(p, k) ==
    /\ frame[p].pc = "idle"
    /\ LET value == BackendGet(cache, KeyStrOf(k), now)
       IN  frame' = [frame EXCEPT ![p] =
               [IdleFrame EXCEPT
                   !.op = "flush_keys", !.key = k, !.value = value,
                   !.gets = <<[key |-> KeyStrOf(k), result |-> value]>>,
                   !.pc = IF value = None THEN "done" ELSE "flush"]]
    /\ UNCHANGED <<cache, now>>

\* for k in self.get_keys(key, value): self.flush(k): one iteration
MultiFlushStep(p) ==
    /\ frame[p].pc = "flush"
    /\ LET keys == GetKeys(frame[p].key, frame[p].value)
           k == KeyStrOf(keys[Len(frame[p].dels) + 1])
       IN  /\ cache' = BackendDelete(cache, k)
           /\ frame' = [frame EXCEPT
                   ![p].dels = Append(@, k),
                   ![p].pc = IF Len(frame[p].dels) + 1 = Len(keys)
                             THEN "done" ELSE "flush"]
    /\ UNCHANGED now

\* the call returns, or its exception reaches the caller
MultiReturn(p) ==
    /\ frame[p].pc \in {"done", "raised"}
    /\ frame' = [frame EXCEPT ![p] = IdleFrame]
    /\ UNCHANGED <<cache, now>>

InitMulti == Init

MultiGet ==
    \E k \in MultiKeys, dc \in BOOLEAN, dco \in BOOLEAN :
        GetBegin(W, k, dc, dco) /\ UNCHANGED <<keyVars, wrapVars>>
MultiCompute ==
    \E result \in FuncResults : GetCompute(W, result) /\ UNCHANGED <<keyVars, wrapVars>>
MultiSet ==
    \E k \in MultiKeys, value \in FuncResults :
        MultiSetBegin(W, k, value) /\ UNCHANGED <<keyVars, wrapVars>>
MultiWriteOk == MultiWrite(W) /\ UNCHANGED <<keyVars, wrapVars>>
MultiWriteRaises ==
    \E error \in BackendErrors : MultiWriteFails(W, error) /\ UNCHANGED <<keyVars, wrapVars>>
MultiFlushKeys ==
    \E k \in MultiKeys : MultiFlushKeysBegin(W, k) /\ UNCHANGED <<keyVars, wrapVars>>
MultiFlushNext == MultiFlushStep(W) /\ UNCHANGED <<keyVars, wrapVars>>
\* the inherited GenericCache.flush of one key
MultiFlushOne ==
    \E k \in MultiKeys : Flush(W, k) /\ UNCHANGED <<keyVars, wrapVars>>
MultiReturns == MultiReturn(W) /\ UNCHANGED <<keyVars, wrapVars>>
MultiTick == Tick /\ UNCHANGED <<keyVars, wrapVars>>

NextMulti ==
    \/ MultiGet
    \/ MultiCompute
    \/ MultiSet
    \/ MultiWriteOk
    \/ MultiWriteRaises
    \/ MultiFlushKeys
    \/ MultiFlushNext
    \/ MultiFlushOne
    \/ MultiReturns
    \/ MultiTick

SpecMulti == InitMulti /\ [][NextMulti]_vars

(***************************************************************************)
(* Claims about GenericCacheMultiple (checked under SpecMulti)             *)
(***************************************************************************)
\* the backend set the fan-out makes for key k
FanOutCall(k, value) == [key |-> KeyStrOf(k), value |-> value, timeout |-> k.timeout]
\* the call has written (or is writing): set, or a get past its func()
Writes(f) == f.op = "set" \/ (f.op = "get" /\ f.calls # <<>> /\ ~f.disable_cache_overwrite)

\* C11: the backend sets of GenericCacheMultiple.set, also when the inherited
\* get calls it on a miss, are in order the primary key and then each key of
\* get_other_keys(key, value), each with that key's key_str and timeout and
\* the one value; a finished write has made all of them.
C11_FanOutInOrder ==
    LET f == frame[W] IN
    /\ (f.op \in {"set", "get"}) =>
        \A i \in 1..Len(f.sets) :
            /\ i = 1 => f.sets[i] = FanOutCall(f.key, f.value)
            /\ i > 1 => f.sets[i] = FanOutCall(GetOtherKeys(f.key, f.value)[i - 1], f.value)
    /\ (Writes(f) /\ f.pc = "done") =>
        Len(f.sets) = 1 + Len(GetOtherKeys(f.key, f.value))
    /\ (f.op = "get" /\ ~Writes(f)) => f.sets = <<>>

\* a get that missed on the primary key has written 2 under three keys
C11_Witness ==
    LET f == frame[W] IN
    /\ f.op = "get" /\ f.pc = "done" /\ f.calls = <<I(2)>>
    /\ f.sets = <<[key |-> "test_key", value |-> I(2), timeout |-> I(1)],
                  [key |-> "other", value |-> I(2), timeout |-> I(2)],
                  [key |-> "by_value__2", value |-> I(2), timeout |-> None]>>
    /\ cache["by_value__2"].value = I(2)

\* C12: flush_keys(key) makes one backend read, of the primary key; if it
\* returned None the call is over with no backend delete; otherwise its deletes
\* are in order the primary key and each key of get_other_keys(key, the value
\* read), and when it is over none of those keys is in the backend.
C12_FlushKeys ==
    LET f == frame[W] IN
    f.op = "flush_keys" =>
        /\ f.gets = <<[key |-> KeyStrOf(f.key), result |-> f.value]>>
        /\ f.sets = <<>>
        /\ f.value = None => (f.pc = "done" /\ f.dels = <<>>)
        /\ f.value # None =>
            LET others == GetOtherKeys(f.key, f.value) IN
            /\ Len(f.dels) <= 1 + Len(others)
            /\ \A i \in 1..Len(f.dels) :
                f.dels[i] = IF i = 1 THEN KeyStrOf(f.key) ELSE KeyStrOf(others[i - 1])
            /\ f.pc = "done" =>
                /\ Len(f.dels) = 1 + Len(others)
                /\ \A i \in 1..Len(f.dels) : f.dels[i] \notin DOMAIN cache

\* flush_keys found 2 under the primary key and deleted the three keys
C12_Witness ==
    LET f == frame[W] IN
    /\ f.op = "flush_keys" /\ f.pc = "done"
    /\ f.value = I(2)
    /\ f.dels = <<"test_key", "other", "by_value__2">>
    /\ "by_value__1" \in DOMAIN cache

\* C19: when a backend set raises inside the fan-out of
\* GenericCacheMultiple.set (called directly or by get on a miss), the caller
\* gets that error as it is; the keys written before it keep the new value (no
\* rollback), the failing step and the steps after it write nothing, and the
\* remaining keys are never attempted (no retry).
C19_State ==
    LET f == frame[W] IN
    /\ f.error # None => f.pc = "raised"
    /\ f.pc = "raised" =>
        LET keys == <<f.key>> \o GetOtherKeys(f.key, f.value) IN
        /\ f.error \in BackendErrors
        /\ Len(f.sets) < Len(keys)
        /\ \A i \in 1..Len(f.sets) :
            /\ f.sets[i] = FanOutCall(keys[i], f.value)
            /\ KeyStrOf(keys[i]) \in DOMAIN cache
            /\ cache[KeyStrOf(keys[i])].value = f.value

C19_Step ==
    /\ frame'[W].pc = "raised" => cache' = cache
    /\ frame[W].pc = "raised" => frame'[W] \in {frame[W], IdleFrame}

C19_FailedFanOut == []C19_State /\ [][C19_Step]_vars

\* the set of "other" raised after 2 was written under the primary key: "other"
\* still holds the older 1 and the value-derived key was never written
C19_Witness ==
    LET f == frame[W] IN
    /\ f.pc = "raised" /\ f.op = "get"
    /\ f.value = I(2)
    /\ Len(f.sets) = 1
    /\ cache["test_key"].value = I(2)
    /\ "other" \in DOMAIN cache /\ cache["other"].value = I(1)
    /\ "by_value__2" \notin DOMAIN cache

(***************************************************************************)
(* SpecBuild: MethodKeyBuilder / AttrsMethodKeyBuilder.build_key applied   *)
(* to one call of a method, and the key's key_str read                     *)
(***************************************************************************)
SampleSpec == [args |-> <<"self", "a">>, varargs |-> None]
IdMethodSpec == [args |-> <<"self", "a", "id">>, varargs |-> None]
BuildVals == {I(1), I(5)}

\* the builders under study, with the signature of the method they are given
Builders ==
    {Decoration(kind, "", "sample", S(""), None, None,
                IF kind = "attrs" THEN <<"id">> ELSE <<>>, argspec, TRUE) :
        kind \in {"method", "attrs"},
        argspec \in {SampleSpec, IdMethodSpec, MethodSpec}}

\* the declared parameters after the receiver
Params(argspec) == Tail(argspec.args)

\* build_key('sample', method, recv, ...): the first given parameters are
\* passed, the first npos of them positionally and the others by keyword; the
\* parameters after them are left to their defaults
BuildCall(recv, params, vals, given, npos, reversed) ==
    LET kw == [i \in 1..(given - npos) |-> <<params[npos + i], vals[npos + i]>>]
    IN  [recv |-> recv,
         args |-> <<recv>> \o [i \in 1..npos |-> vals[i]],
         kwargs |-> IF reversed THEN Reverse(kw) ELSE kw,
         passed |-> [i \in 1..given |-> <<params[i], vals[i]>>]]

BuildCalls(c) ==
    LET params == Params(c.argspec) IN
    {BuildCall(recv, params, vals, given, npos, reversed) :
        recv \in Receivers, vals \in [1..Len(params) -> BuildVals],
        given \in 1..Len(params), npos \in 0..Len(params), reversed \in BOOLEAN}

\* key = builder.build_key('sample', method, *call.args, **call.kwargs)
BuildKeyCall(call) ==
    /\ wcall = None
    /\ Len(call.args) <= Len(call.passed) + 1
    /\ wcall' = call
    /\ key' = BuildKey(cfg, cfg.key_type, call.args, call.kwargs)
    /\ UNCHANGED <<kfields, kfirst, klast, krebuilt, kreads, cache, now, frame,
                   cfg, lyst, stored>>

\* key.key_str
BuildRead ==
    /\ wcall # None
    /\ key._key_str = None
    /\ key' = ReadKey(key)
    /\ UNCHANGED <<kfields, kfirst, klast, krebuilt, kreads, cache, now, frame,
                   cfg, lyst, wcall, stored>>

\* the key is dropped
BuildDone ==
    /\ wcall # None
    /\ key._key_str # None
    /\ wcall' = None
    /\ key' = NewArgsCacheKey(S("t"), <<>>, <<>>)
    /\ UNCHANGED <<kfields, kfirst, klast, krebuilt, kreads, cache, now, frame,
                   cfg, lyst, stored>>

InitBuild ==
    /\ cache = EmptyCache
    /\ now = 0
    /\ frame = [p \in Procs |-> IdleFrame]
    /\ KeyIdle
    /\ cfg \in Builders
    /\ lyst = None
    /\ wcall = None
    /\ stored = None

BuildAny == wcall = None /\ \E call \in BuildCalls(cfg) : BuildKeyCall(call)

NextBuild ==
    \/ BuildAny
    \/ BuildRead
    \/ BuildDone

SpecBuild == InitBuild /\ [][NextBuild]_vars

(***************************************************************************)
(* Claims about the method key builders (checked under SpecBuild)          *)
(***************************************************************************)
\* C20: the key MethodKeyBuilder builds for a method call has no positional
\* args and, as kwargs, exactly the parameters passed after the receiver with
\* the values passed: the receiver is not in it; AttrsMethodKeyBuilder(['id'])
\* builds the same plus id, whose value is the receiver's attribute also when
\* the call passed a parameter named id; receiver id='uniq', call (1) gives
\* 'sample__a_1__id_uniq'.
C20_MethodKeys ==
    wcall # None =>
        LET attrs == {cfg.attrs[i] : i \in 1..Len(cfg.attrs)} IN
        /\ key.key_type = S("sample")
        /\ key.args = <<>>
        /\ Names(key.kwargs) = Names(wcall.passed) \cup attrs
        /\ "self" \notin Names(key.kwargs)
        /\ \A n \in Names(wcall.passed) \ attrs :
            Lookup(key.kwargs, n) = Lookup(wcall.passed, n)
        /\ \A n \in attrs : Lookup(key.kwargs, n) = InstanceId(wcall.recv)
        /\ (cfg.kind = "attrs" /\ wcall.recv = Obj("A")
                /\ wcall.passed = <<<<"a", I(1)>>>>) =>
            KeyStrOf(key) = "sample__a_1__id_uniq"
        /\ (cfg.kind = "method" /\ wcall.passed = <<<<"a", I(1)>>, <<"b", I(5)>>>>) =>
            KeyStrOf(key) = "sample__a_1__b_5"

\* AttrsMethodKeyBuilder on m(self, a, id) called as (recv, 1, id=5): the key
\* read is 'sample__a_1__id_uniq'
C20_Witness ==
    /\ wcall # None
    /\ cfg.kind = "attrs"
    /\ wcall.recv = Obj("A")
    /\ wcall.args = <<Obj("A"), I(1)>>
    /\ wcall.kwargs = <<<<"id", I(5)>>>>
    /\ key._key_str = S("sample__a_1__id_uniq")

(***************************************************************************)
(* SpecDerive: GenericCache.get_key called on an orchestrator, and the     *)
(* key's key_str read                                                      *)
(***************************************************************************)
\* GenericCache(backend, default_timeout, key_prefix=key_prefix)
Orchestrator(key_prefix, default_timeout) ==
    [key_prefix |-> key_prefix, default_timeout |-> default_timeout]

Orchestrators ==
    {Orchestrator(key_prefix, default_timeout) :
        key_prefix \in {"", "Test."}, default_timeout \in {None, I(15)}}

\* the timeout kwarg of a call: absent (<<>>), or given as None or as 5
TimeoutKwargs == {<<>>, <<<<"timeout", None>>>>, <<<<"timeout", I(5)>>>>}
\* the key_version kwarg of a call: absent or 'v'
VersionKwargs == {<<>>, <<<<"key_version", S("v")>>>>}

\* generic_cache.get_key('type', *args, **kwargs)
DeriveCalls ==
    {[key_type |-> "type", args |-> args, kwargs |-> t \o kw \o v] :
        args \in SeqsUpTo({I(1), I(2), S("")}, MaxArgs), kw \in KwDicts,
        t \in TimeoutKwargs, v \in VersionKwargs}

\* key = generic_cache.get_key(call.key_type, *call.args, **call.kwargs)
DeriveKey(call) ==
    /\ wcall = None
    /\ wcall' = call
    /\ key' = GetKey(cfg, call.key_type, call.args, call.kwargs)
    /\ UNCHANGED <<kfields, kfirst, klast, krebuilt, kreads, cache, now, frame,
                   cfg, lyst, stored>>

\* key.key_str
DeriveRead ==
    /\ wcall # None
    /\ key._key_str = None
    /\ key' = ReadKey(key)
    /\ UNCHANGED <<kfields, kfirst, klast, krebuilt, kreads, cache, now, frame,
                   cfg, lyst, wcall, stored>>

\* the key is dropped
DeriveDone ==
    /\ wcall # None
    /\ key._key_str # None
    /\ wcall' = None
    /\ key' = NewArgsCacheKey(S("t"), <<>>, <<>>)
    /\ UNCHANGED <<kfields, kfirst, klast, krebuilt, kreads, cache, now, frame,
                   cfg, lyst, stored>>

InitDerive ==
    /\ cache = EmptyCache
    /\ now = 0
    /\ frame = [p \in Procs |-> IdleFrame]
    /\ KeyIdle
    /\ cfg \in Orchestrators
    /\ lyst = None
    /\ wcall = None
    /\ stored = None

DeriveAny == wcall = None /\ \E call \in DeriveCalls : DeriveKey(call)

NextDerive ==
    \/ DeriveAny
    \/ DeriveRead
    \/ DeriveDone

SpecDerive == InitDerive /\ [][NextDerive]_vars

(***************************************************************************)
(* Claims about GenericCache.get_key (checked under SpecDerive)            *)
(***************************************************************************)
\* the call's kwargs without the timeout
Untimed(call) == PopRest(call.kwargs, "timeout")

\* C24: the key get_key(key_type, *args, **kwargs) returns has the key string
\* of an ArgsCacheKey of key_prefix + key_type with the same args and the same
\* kwargs but timeout: key_prefix + key_type (and the key_version, when given)
\* followed by the args section and the sorted kwargs section; its timeout is
\* the timeout kwarg when one is given, None included, and the orchestrator's
\* default_timeout otherwise; timeout is not among the key's kwargs.
C24_GetKey ==
    wcall # None =>
        /\ key.key_type = S(cfg.key_prefix \o wcall.key_type)
        /\ key.args = wcall.args
        /\ key.timeout = IF HasName(wcall.kwargs, "timeout")
                         THEN Lookup(wcall.kwargs, "timeout")
                         ELSE cfg.default_timeout
        /\ "timeout" \notin Names(key.kwargs)
        /\ KeyStrOf(key) =
             KeyStr(NewArgsCacheKey(S(cfg.key_prefix \o wcall.key_type), wcall.args,
                                    Untimed(wcall)))
        /\ KeyStrOf(key) =
             KeyStr(NewArgsCacheKey(S(cfg.key_prefix \o wcall.key_type), wcall.args,
                        SelectSeq(wcall.kwargs, LAMBDA p : p[1] = "key_version")))
             \o (IF PopRest(Untimed(wcall), "key_version") = <<>> THEN ""
                 ELSE "__" \o Join("__",
                     ItemStrAll(SortedItems(PopRest(Untimed(wcall), "key_version")))))
        /\ (wcall.args = <<I(1), I(2)>> /\ Untimed(wcall) = <<<<"a", I(1)>>>>) =>
            KeyStrOf(key) = cfg.key_prefix \o "type__1__2__a_1"

\* get_key('type', 1, 2, timeout=5, a=1) on an orchestrator with prefix
\* 'Test.' and default_timeout 15: 'Test.type__1__2__a_1', timeout 5
C24_Witness ==
    /\ wcall # None
    /\ cfg = Orchestrator("Test.", I(15))
    /\ wcall.args = <<I(1), I(2)>>
    /\ wcall.kwargs = <<<<"timeout", I(5)>>, <<"a", I(1)>>>>
    /\ key.timeout = I(5)
    /\ key._key_str = S("Test.type__1__2__a_1")

\* the same call without the timeout kwarg: timeout 15
C24_DefaultWitness ==
    /\ wcall # None
    /\ cfg = Orchestrator("Test.", I(15))
    /\ wcall.kwargs = <<<<"a", I(1)>>>>
    /\ key.timeout = I(15)
    /\ key._key_str = S("Test.type__1__2__a_1")

\* the keys a fan-out of the primary key writes besides it
DerivedKeyStrs == {"other"} \cup {"by_value__" \o Str(v) : v \in FuncResults}

\* C27: a flush_keys of the primary key that begins while the backend serves
\* nothing for it (no entry, or an entry past its expiry time) is over with its
\* read: it makes no delete and leaves the backend as it is, so every derived
\* entry that was live is still served, under its key, with the value it had.
C27_Step ==
    (/\ frame[W].pc = "idle"
     /\ frame'[W].op = "flush_keys"
     /\ frame'[W].key = PrimaryKey
     /\ ExpectedRead(KeyStrOf(PrimaryKey)) = None) =>
        /\ frame'[W].pc = "done"
        /\ frame'[W].dels = <<>>
        /\ cache' = cache
        /\ \A k \in DerivedKeyStrs :
            BackendGet(cache', k, now') = ExpectedRead(k)

C27_State ==
    (frame[W].op = "flush_keys" /\ frame[W].value = None) =>
        (frame[W].pc = "done" /\ frame[W].dels = <<>>)

C27_OrphanedDerived == []C27_State /\ [][C27_Step]_vars

\* the primary entry is past its expiry time; flush_keys deleted nothing and
\* both derived entries still serve 2
C27_Witness ==
    /\ frame[W].op = "flush_keys" /\ frame[W].pc = "done"
    /\ frame[W].key = PrimaryKey
    /\ frame[W].value = None /\ frame[W].dels = <<>>
    /\ "test_key" \in DOMAIN cache
    /\ cache["test_key"].value = I(2)
    /\ cache["test_key"].expires_in.v < now
    /\ BackendGet(cache, "other", now) = I(2)
    /\ BackendGet(cache, "by_value__2", now) = I(2)

\* the primary entry is gone (flushed on its own); flush_keys deleted nothing
\* and both derived entries still serve 2
C27_AbsentWitness ==
    /\ frame[W].op = "flush_keys" /\ frame[W].pc = "done"
    /\ frame[W].key = PrimaryKey
    /\ frame[W].value = None /\ frame[W].dels = <<>>
    /\ "test_key" \notin DOMAIN cache
    /\ BackendGet(cache, "other", now) = I(2)
    /\ BackendGet(cache, "by_value__2", now) = I(2)

\* the key string the fan-out derives from value v
ByValue(v) == "by_value__" \o Str(v)

\* C28: flush_keys of the primary key deletes, besides the primary key and the
\* fixed derived key, only the key derived from the value its read of the
\* primary key returned; the entries under the keys derived from any other
\* value, such as the one an earlier set of the primary key wrote, are left in
\* the backend as they are by every step of the call.
C28_State ==
    (/\ frame[W].op = "flush_keys" /\ frame[W].key = PrimaryKey
     /\ frame[W].pc = "done" /\ frame[W].value # None) =>
        /\ frame[W].dels = <<"test_key", "other", ByValue(frame[W].value)>>
        /\ \A i \in 1..3 : frame[W].dels[i] \notin DOMAIN cache

C28_Step ==
    (frame'[W].op = "flush_keys" /\ frame'[W] # frame[W]) =>
        \A v \in FuncResults \ {frame'[W].value} :
            /\ ByValue(v) \in DOMAIN cache <=> ByValue(v) \in DOMAIN cache'
            /\ ByValue(v) \in DOMAIN cache => cache'[ByValue(v)] = cache[ByValue(v)]

C28_StaleDerivedRemain == []C28_State /\ [][C28_Step]_vars

\* the primary key was set with 1 and later with 2; flush_keys read 2 and has
\* deleted the key derived from 2, and the key derived from 1 still serves 1
C28_Witness ==
    /\ frame[W].op = "flush_keys" /\ frame[W].pc = "done"
    /\ frame[W].key = PrimaryKey
    /\ frame[W].value = I(2)
    /\ ByValue(I(2)) \notin DOMAIN cache
    /\ ByValue(I(1)) \in DOMAIN cache
    /\ BackendGet(cache, ByValue(I(1)), now) = I(1)

(***************************************************************************)
(* SpecRace: two callers of GenericCacheMultiple.set on the same primary   *)
(* key, one backend set per step                                           *)
(***************************************************************************)
InitRace == Init

RaceSet ==
    \E p \in Procs, value \in FuncResults :
        MultiSetBegin(p, PrimaryKey, value) /\ UNCHANGED <<keyVars, wrapVars>>
RaceWrite == \E p \in Procs : MultiWrite(p) /\ UNCHANGED <<keyVars, wrapVars>>
RaceReturn == \E p \in Procs : MultiReturn(p) /\ UNCHANGED <<keyVars, wrapVars>>
RaceTick == Tick /\ UNCHANGED <<keyVars, wrapVars>>

NextRace ==
    \/ RaceSet
    \/ RaceWrite
    \/ RaceReturn
    \/ RaceTick

SpecRace == InitRace /\ [][NextRace]_vars

(***************************************************************************)
(* Claims about concurrent fan-outs (checked under SpecRace)               *)
(***************************************************************************)
\* both callers' sets of the primary key are over
BothSetsOver ==
    \A p \in Procs : frame[p].op = "set" /\ frame[p].pc = "done"

\* C29: GenericCacheMultiple.set writes its keys one backend set at a time,
\* each set replacing one key's entry and leaving every other entry alone, and
\* the other caller's sets may run in between: when two sets of the same
\* primary key are over, each shared key holds the value of one of the two,
\* and the primary key and the shared derived key need not hold the same one.
C29_Step ==
    \A p \in Procs :
        Len(frame'[p].sets) > Len(frame[p].sets) =>
            LET call == frame'[p].sets[Len(frame'[p].sets)] IN
            /\ Len(frame'[p].sets) = Len(frame[p].sets) + 1
            /\ cache'[call.key].value = frame[p].value
            /\ \A k \in DOMAIN cache' \ {call.key} :
                k \in DOMAIN cache /\ cache'[k] = cache[k]

C29_State ==
    BothSetsOver =>
        \A k \in {"test_key", "other"} :
            /\ k \in DOMAIN cache
            /\ cache[k].value \in {frame[p].value : p \in Procs}

C29_NotAtomic == []C29_State /\ [][C29_Step]_vars

\* set(primary, 1) and set(primary, 2) are both over; the primary key holds 1
\* and the shared derived key holds 2
C29_Witness ==
    /\ BothSetsOver
    /\ frame["p1"].value = I(1) /\ frame["p2"].value = I(2)
    /\ cache["test_key"].value = I(1)
    /\ cache["other"].value = I(2)

====
